---------------------------- MODULE Spec2Model ----------------------------
(***************************************************************************)
(* Model of XtarkR20Controller (src/xtark_r20_controller.py): the serial   *)
(* frame codec, the background read loop, the command operations and the   *)
(* connect/disconnect lifecycle.                                           *)
(*                                                                         *)
(* Numbers.  Bytes are naturals 0..255.  A Python float is represented by  *)
(* an integer count of 1/FIX thousandths (FIX = 10: 0.3 m/s is 3000), so   *)
(* that int(v * 1000) truncates and raw / 1000.0 scales.  Headings are     *)
(* only ever whole multiples of QUARTER_TURN, where cos and sin are taken  *)
(* as exactly 1, 0 or -1.  time.time() is a wall-clock read: from one      *)
(* read to the next it may advance, stand still or step back.              *)
(***************************************************************************)
EXTENDS Integers, Sequences, FiniteSets, TLC

\* ------------------------------------------------------------------ bounds
MaxTime == 3
MaxPayload == 3
MaxGarbage == 4
MaxThreads == 2
MaxFrames == 3
MaxCmds == 2

\* ------------------------------------------------- protocol constants
HEADER1 == 170
HEADER2 == 85
CMD_VELOCITY == 80
CMD_IMU_CALIBRATE == 81
CMD_RGB_LIGHT == 82
CMD_LIGHT_SAVE == 83
CMD_BEEPER == 84
CMD_ROBOT_TYPE == 90
ID_INTEGRATED_DATA == 16
R20_MEC == 1
MIN_PACKET == 5
TELEMETRY_LEN == 20
SENTINEL == 85

\* ------------------------------------------------------ number model
FIX == 10
QUARTER_TURN == 15710

Byte == 0..255


\* int(x): truncation toward zero of n / d, d > 0
TruncDiv(n, d) == IF n >= 0 THEN n \div d ELSE -((-n) \div d)

\* Decimal arguments v (in units of 1/(1000*FIX)) whose double, multiplied
\* by 1000 in double arithmetic, is the double just below the whole number:
\* 2.01 * 1000 = 2009.9999999999998, 1.001 * 1000 = 1000.9999999999999
RoundsBelow == {10010, 10030, 20100, 20300}

\* v * 1000 as Python computes it, in units of 1/FIX
Times1000(v) ==
  IF v \in RoundsBelow THEN v - 1
  ELSE IF -v \in RoundsBelow THEN v + 1
  ELSE v

\* int(v * 1000) for a float held as v/(1000*FIX)
ToMilli(v) == TruncDiv(Times1000(v), FIX)

\* raw / 1000.0 in the float representation
FromMilli(raw) == raw * FIX

\* raw / 100.0 in the float representation
FromCenti(raw) == raw * 10 * FIX

\* math.cos / math.sin on whole quarter turns
Cos(th) ==
  LET q == (th \div QUARTER_TURN) % 4
  IN  CASE q = 0 -> 1 [] q = 1 -> 0 [] q = 2 -> -1 [] OTHER -> 0

Sin(th) ==
  LET q == (th \div QUARTER_TURN) % 4
  IN  CASE q = 0 -> 0 [] q = 1 -> 1 [] q = 2 -> 0 [] OTHER -> -1

\* ------------------------------------------------------ byte helpers
RECURSIVE SumBytes(_)
SumBytes(s) == IF s = <<>> THEN 0 ELSE Head(s) + SumBytes(Tail(s))

\* s[k:] of Python, k >= 0
Drop(s, k) == IF k >= Len(s) THEN <<>> ELSE SubSeq(s, k + 1, Len(s))

\* s[:k] of Python, k >= 0
Take(s, k) == IF k >= Len(s) THEN s ELSE SubSeq(s, 1, k)

\* s[:-1] of Python
ButLast(s) == IF s = <<>> THEN <<>> ELSE SubSeq(s, 1, Len(s) - 1)

\* struct.pack('<h', v): two's complement, little-endian
PackH(v) ==
  LET u == v % 65536
  IN  <<u % 256, u \div 256>>

\* struct.unpack('<H', ..) and ('<h', ..) of the two bytes at 0-based offset k
UnpackU16(data, k) == data[k + 1] + 256 * data[k + 2]

UnpackS16(data, k) ==
  LET u == UnpackU16(data, k)
  IN  IF u >= 32768 THEN u - 65536 ELSE u

\* x ^ (1 << bit), bit in 0..7
FlipBitOfByte(x, bit) ==
  LET p == 2 ^ bit
  IN  IF (x \div p) % 2 = 1 THEN x - p ELSE x + p

\* the sequence s with bit i (0-based, over the whole sequence) flipped
FlipBit(s, i) ==
  [j \in 1..Len(s) |->
     IF j = (i \div 8) + 1 THEN FlipBitOfByte(s[j], i % 8) ELSE s[j]]


\* ------------------------------------------------------- frame codec
\* Encode with the length byte counting header, id and payload only
EncodeLengthWithoutChecksum(cmd_id, data) ==
  LET header == <<HEADER1, HEADER2, 4 + Len(data), cmd_id>>
      packet_without_checksum == header \o data
  IN  packet_without_checksum \o <<SumBytes(packet_without_checksum) % 256>>

\* Encode with the checksum summed over the payload only
EncodeChecksumOfPayload(cmd_id, data) ==
  <<HEADER1, HEADER2, 5 + Len(data), cmd_id>> \o data
    \o <<SumBytes(data) % 256>>

\* _send_packet: the bytes handed to serial_conn.write
Encode(cmd_id, data) ==
  LET data_len == Len(data)
      total_len == 5 + data_len
      header == <<HEADER1, HEADER2, total_len, cmd_id>>
      packet_without_checksum == header \o data
      checksum == SumBytes(packet_without_checksum) % 256
  IN  packet_without_checksum \o <<checksum>>

\* FindHeader searching for the first sync byte alone
FindFirstSyncByte(buffer) ==
  LET hits == {k \in 1..Len(buffer) : buffer[k] = HEADER1}
  IN  IF hits = {} THEN -1
      ELSE (CHOOSE k \in hits : \A j \in hits : k <= j) - 1

\* buffer.find(bytes([HEADER1, HEADER2])): 0-based index, or -1
FindHeader(buffer) ==
  IF \E k \in 1..(Len(buffer) - 1) :
       buffer[k] = HEADER1 /\ buffer[k + 1] = HEADER2
  THEN (CHOOSE k \in 1..(Len(buffer) - 1) :
          /\ buffer[k] = HEADER1 /\ buffer[k + 1] = HEADER2
          /\ \A j \in 1..(k - 1) :
               ~(buffer[j] = HEADER1 /\ buffer[j + 1] = HEADER2)) - 1
  ELSE -1

ScanResult(kind, buf, cmd, data) ==
  [kind |-> kind, buffer |-> buf, cmd_id |-> cmd, data |-> data]

\* ScanStep that takes every complete candidate, whatever its checksum
ScanStepNoChecksum(buffer) ==
  IF Len(buffer) < MIN_PACKET THEN ScanResult("stop", buffer, 0, <<>>)
  ELSE
    LET header_index == FindHeader(buffer) IN
    IF header_index = -1 THEN ScanResult("stop", <<>>, 0, <<>>)
    ELSE
      LET buf == Drop(buffer, header_index) IN
      IF Len(buf) < 4 THEN ScanResult("stop", buf, 0, <<>>)
      ELSE
        LET total_len == buf[3] IN
        IF Len(buf) < total_len THEN ScanResult("stop", buf, 0, <<>>)
        ELSE
          LET packet == Take(buf, total_len) IN
          IF Len(packet) < 4 THEN ScanResult("raise", buf, 0, <<>>)
          ELSE ScanResult("frame", Drop(buf, total_len), packet[4],
                          SubSeq(packet, 5, Len(packet) - 1))

\* ScanStep that does not wait for the declared length to arrive
ScanStepNoLengthWait(buffer) ==
  IF Len(buffer) < MIN_PACKET THEN ScanResult("stop", buffer, 0, <<>>)
  ELSE
    LET header_index == FindHeader(buffer) IN
    IF header_index = -1 THEN ScanResult("stop", <<>>, 0, <<>>)
    ELSE
      LET buf == Drop(buffer, header_index) IN
      IF Len(buf) < 4 THEN ScanResult("stop", buf, 0, <<>>)
      ELSE
        LET total_len == buf[3]
            packet == Take(buf, total_len)
        IN  IF packet = <<>> THEN ScanResult("raise", buf, 0, <<>>)
            ELSE
              IF SumBytes(ButLast(packet)) % 256 = packet[Len(packet)]
              THEN IF Len(packet) < 4
                   THEN ScanResult("raise", buf, 0, <<>>)
                   ELSE ScanResult("frame", Drop(buf, total_len), packet[4],
                                   SubSeq(packet, 5, Len(packet) - 1))
              ELSE ScanResult("next", Drop(buf, total_len), 0, <<>>)

\* ScanStep that keeps a buffer in which no marker is found
ScanStepKeepsUnmarked(buffer) ==
  IF Len(buffer) < MIN_PACKET THEN ScanResult("stop", buffer, 0, <<>>)
  ELSE
    LET header_index == FindHeader(buffer) IN
    IF header_index = -1 THEN ScanResult("stop", buffer, 0, <<>>)
    ELSE
      LET buf == Drop(buffer, header_index) IN
      IF Len(buf) < 4 THEN ScanResult("stop", buf, 0, <<>>)
      ELSE
        LET total_len == buf[3] IN
        IF Len(buf) < total_len THEN ScanResult("stop", buf, 0, <<>>)
        ELSE
          LET packet == Take(buf, total_len) IN
          IF packet = <<>> THEN ScanResult("raise", buf, 0, <<>>)
          ELSE
            IF SumBytes(ButLast(packet)) % 256 = packet[Len(packet)]
            THEN IF Len(packet) < 4
                 THEN ScanResult("raise", buf, 0, <<>>)
                 ELSE ScanResult("frame", Drop(buf, total_len), packet[4],
                                 SubSeq(packet, 5, Len(packet) - 1))
            ELSE ScanResult("next", Drop(buf, total_len), 0, <<>>)

\* ScanStep that drops only the marker of a candidate failing its checksum,
\* so that the search goes on inside the candidate
ScanStepResyncInside(buffer) ==
  IF Len(buffer) < MIN_PACKET THEN ScanResult("stop", buffer, 0, <<>>)
  ELSE
    LET header_index == FindHeader(buffer) IN
    IF header_index = -1 THEN ScanResult("stop", <<>>, 0, <<>>)
    ELSE
      LET buf == Drop(buffer, header_index) IN
      IF Len(buf) < 4 THEN ScanResult("stop", buf, 0, <<>>)
      ELSE
        LET total_len == buf[3] IN
        IF Len(buf) < total_len THEN ScanResult("stop", buf, 0, <<>>)
        ELSE
          LET packet == Take(buf, total_len) IN
          IF packet = <<>> THEN ScanResult("raise", buf, 0, <<>>)
          ELSE
            IF SumBytes(ButLast(packet)) % 256 = packet[Len(packet)]
            THEN IF Len(packet) < 4
                 THEN ScanResult("raise", buf, 0, <<>>)
                 ELSE ScanResult("frame", Drop(buf, total_len), packet[4],
                                 SubSeq(packet, 5, Len(packet) - 1))
            ELSE ScanResult("next", Drop(buf, 2), 0, <<>>)

\* ScanStep reading the declared length from two bytes (little endian)
\* instead of the single byte buffer[2]
ScanStepWideLength(buffer) ==
  IF Len(buffer) < MIN_PACKET THEN ScanResult("stop", buffer, 0, <<>>)
  ELSE
    LET header_index == FindHeader(buffer) IN
    IF header_index = -1 THEN ScanResult("stop", <<>>, 0, <<>>)
    ELSE
      LET buf == Drop(buffer, header_index) IN
      IF Len(buf) < 4 THEN ScanResult("stop", buf, 0, <<>>)
      ELSE
        LET total_len == buf[3] + 256 * buf[4] IN
        IF Len(buf) < total_len THEN ScanResult("stop", buf, 0, <<>>)
        ELSE
          LET packet == Take(buf, total_len) IN
          IF packet = <<>> THEN ScanResult("raise", buf, 0, <<>>)
          ELSE
            LET calc_checksum == SumBytes(ButLast(packet)) % 256
                recv_checksum == packet[Len(packet)]
            IN  IF calc_checksum = recv_checksum
                THEN IF Len(packet) < 4
                     THEN ScanResult("raise", buf, 0, <<>>)
                     ELSE ScanResult("frame", Drop(buf, total_len), packet[4],
                                     SubSeq(packet, 5, Len(packet) - 1))
                ELSE ScanResult("next", Drop(buf, total_len), 0, <<>>)

\* ScanStep taking a candidate of declared length 0 for a candidate with a
\* bad checksum instead of raising on packet[-1]
ScanStepEmptyPacketContinues(buffer) ==
  IF Len(buffer) < MIN_PACKET THEN ScanResult("stop", buffer, 0, <<>>)
  ELSE
    LET header_index == FindHeader(buffer) IN
    IF header_index = -1 THEN ScanResult("stop", <<>>, 0, <<>>)
    ELSE
      LET buf == Drop(buffer, header_index) IN
      IF Len(buf) < 4 THEN ScanResult("stop", buf, 0, <<>>)
      ELSE
        LET total_len == buf[3] IN
        IF Len(buf) < total_len THEN ScanResult("stop", buf, 0, <<>>)
        ELSE
          LET packet == Take(buf, total_len) IN
          IF packet = <<>> THEN ScanResult("next", buf, 0, <<>>)
          ELSE
            LET calc_checksum == SumBytes(ButLast(packet)) % 256
                recv_checksum == packet[Len(packet)]
            IN  IF calc_checksum = recv_checksum
                THEN IF Len(packet) < 4
                     THEN ScanResult("raise", buf, 0, <<>>)
                     ELSE ScanResult("frame", Drop(buf, total_len), packet[4],
                                     SubSeq(packet, 5, Len(packet) - 1))
                ELSE ScanResult("next", Drop(buf, total_len), 0, <<>>)

\* One pass of the inner loop `while len(buffer) >= 5` of _receive_data.
\*   "stop"  : the loop is left (condition false, or a break)
\*   "next"  : a candidate was dropped, the loop goes round again
\*   "frame" : a checksum-valid packet; buffer is what is kept after it
\*   "raise" : an exception leaves the loop body (packet[-1] or packet[3]
\*             of a packet too short to have it)
ScanStep(buffer) ==
  IF Len(buffer) < MIN_PACKET THEN ScanResult("stop", buffer, 0, <<>>)
  ELSE
    LET header_index == FindHeader(buffer) IN
    IF header_index = -1 THEN ScanResult("stop", <<>>, 0, <<>>)
    ELSE
      LET buf == Drop(buffer, header_index) IN
      IF Len(buf) < 4 THEN ScanResult("stop", buf, 0, <<>>)
      ELSE
        LET total_len == buf[3] IN
        IF Len(buf) < total_len THEN ScanResult("stop", buf, 0, <<>>)
        ELSE
          LET packet == Take(buf, total_len) IN
          IF packet = <<>> THEN ScanResult("raise", buf, 0, <<>>)
          ELSE
            LET calc_checksum == SumBytes(ButLast(packet)) % 256
                recv_checksum == packet[Len(packet)]
            IN  IF calc_checksum = recv_checksum
                THEN IF Len(packet) < 4
                     THEN ScanResult("raise", buf, 0, <<>>)
                     ELSE ScanResult("frame", Drop(buf, total_len), packet[4],
                                     SubSeq(packet, 5, Len(packet) - 1))
                ELSE ScanResult("next", Drop(buf, total_len), 0, <<>>)

\* ------------------------------------------------- telemetry decoder
\* UnpackTelemetry reading all ten fields as signed ('<hhhhhhhhhh')
UnpackTelemetryAllSigned(data) ==
  [i \in 1..10 |-> UnpackS16(data, 2 * (i - 1))]

\* struct.unpack('<hhhhhhhhhH', data)
UnpackTelemetry(data) ==
  [i \in 1..10 |->
     IF i = 10 THEN UnpackU16(data, 18) ELSE UnpackS16(data, 2 * (i - 1))]

\* (raw / 32768.0) * 2.0 * GRAVITY, in thousandths of m/s^2 (2 g = 19613)
AccelScale(raw) == TruncDiv(raw * 19613, 32768)

\* (raw / 32768.0) * 500.0 * (pi / 180), in thousandths of rad/s
\* (500 deg/s = 8727)
GyroScale(raw) == TruncDiv(raw * 8727, 32768)


\* ------------------------------------------------------------- state
VARIABLES
  \* fields of XtarkR20Controller
  is_connected, is_running, serial_conn, receive_thread,
  current_velocity, odometry_data, imu_data, battery_voltage,
  last_update_time, data_lock,
  \* the serial transport and the clock
  openPorts, portsOpened, linkDown, rx, tx, txArgs, clock,
  \* the threads: the lifecycle caller, the command callers, the read
  \* loops (one per started receive thread) and a caller of get_odometry
  main, caller, reader, observer,
  \* the device side of the wire and what is recorded about a run
  stream, feed, delivered, poses, framesLeft, cmdsLeft, hist

sessionVars ==
  <<is_connected, is_running, serial_conn, receive_thread, current_velocity,
    odometry_data, imu_data, battery_voltage, last_update_time, data_lock>>

transportVars == <<openPorts, portsOpened, linkDown, rx, tx, txArgs, clock>>

threadVars == <<main, caller, reader, observer>>

harnessVars == <<stream, feed, delivered, poses, framesLeft, cmdsLeft, hist>>

vars == <<sessionVars, transportVars, threadVars, harnessVars>>

Threads == 1..MaxThreads

Callers == {"A", "B"}

ZeroVelocity == <<0, 0, 0>>

\* OdometryData() and IMUData() of __init__
OdometryInit == [x |-> 0, y |-> 0, theta |-> 0, vx |-> 0, vy |-> 0, vw |-> 0]

IMUInit ==
  [accel_x |-> 0, accel_y |-> 0, accel_z |-> 0,
   gyro_x |-> 0, gyro_y |-> 0, gyro_z |-> 0]

\* the locals of one _receive_data thread; pc "none" is a thread not started
ReaderIdle(pc, buffer) ==
  [pc |-> pc, buffer |-> buffer, cmd_id |-> 0, data |-> <<>>,
   current_time |-> 0, dt |-> 0, raw |-> <<>>, delta |-> <<0, 0, 0>>]

CallerIdle == [pc |-> "idle", cmd_id |-> 0, data |-> <<>>, args |-> ZeroVelocity]

ObserverIdle == [pc |-> "idle", x |-> 0, y |-> 0, theta |-> 0]

FeedNone ==
  [kind |-> "none", cmd_id |-> 0, payload |-> <<>>, garbage |-> <<>>,
   flip |-> -1, chunks |-> "none"]

\* What is recorded about a run.  lastSample is the clock value at which the
\* latest accepted telemetry sample was taken (-1: none yet) and prevSample
\* the one before it; before is the pose the sample under integration found
\* and dts the dt of every integration step completed; seen is what the
\* latest get_current_velocity() returned; ignored is the id of the latest
\* command operation that returned at its `if not self.is_connected` (0:
\* none); discNoop tells that the latest disconnect() returned at its
\* `if self.is_connected`; zeroSent and zeroStored tell, while a disconnect()
\* is under way, that it has handed the zero-velocity frame to
\* serial_conn.write (line 208 reached) and stored the zero commanded
\* velocity; sent lists the frames (cmd_id, payload) the board has sent
\* whole, in the order sent; writeRaised holds the arguments of the latest
\* set_velocity whose serial_conn.write raised (line 209), <<-1>>
\* while there is none.
HistInit ==
  [inBlock |-> FALSE, exited |-> FALSE, discReturned |-> FALSE,
   connectResult |-> "none", lastSample |-> -1, prevSample |-> -1,
   before |-> <<0, 0, 0>>, dts |-> <<>>, seen |-> ZeroVelocity,
   ignored |-> 0, discNoop |-> FALSE, zeroSent |-> FALSE,
   zeroStored |-> FALSE, sent |-> <<>>, writeRaised |-> <<-1>>]

\* the state right after XtarkR20Controller(...) returns
InitSession ==
  /\ is_connected = FALSE
  /\ is_running = FALSE
  /\ serial_conn = 0
  /\ receive_thread = 0
  /\ current_velocity = ZeroVelocity
  /\ odometry_data = OdometryInit
  /\ imu_data = IMUInit
  /\ battery_voltage = 0
  /\ last_update_time = 0
  /\ data_lock = 0
  /\ openPorts = {}
  /\ portsOpened = 0
  /\ linkDown = FALSE
  /\ rx = <<>>
  /\ tx = <<>>
  /\ txArgs = <<>>
  /\ clock = 0
  /\ main = [pc |-> "idle", scoped |-> FALSE]
  /\ caller = [c \in Callers |-> CallerIdle]
  /\ reader = [t \in Threads |-> ReaderIdle("none", <<>>)]
  /\ observer = ObserverIdle
  /\ stream = <<>>
  /\ feed = FeedNone
  /\ delivered = <<>>
  /\ poses = {<<0, 0, 0>>}
  /\ hist = HistInit


\* ------------------------------------------------------ _send_packet
\* Writes Encode(cmd_id, data) unless the guard of line 200 returns early
\* or serial_conn.write raises SerialException (port closed, link down),
\* which is caught and logged.
CanWrite ==
  serial_conn # 0 /\ is_connected /\ serial_conn \in openPorts /\ ~linkDown

SendPacket(cmd_id, data) ==
  IF CanWrite
  THEN /\ tx' = Encode(cmd_id, data)
       /\ txArgs' = <<cmd_id, data>>
  ELSE UNCHANGED <<tx, txArgs>>

\* ------------------------------------------------ connect, __enter__
\* ConnOpen going on as if the port had opened when serial.Serial raised
ConnOpenIgnoresFailure(scoped) ==
  /\ main.pc = "idle"
  /\ scoped => ~hist.inBlock
  /\ portsOpened < MaxThreads
  /\ serial_conn' = portsOpened + 1
  /\ openPorts' = openPorts \cup {portsOpened + 1}
  /\ portsOpened' = portsOpened + 1
  /\ main' = [pc |-> "c_flag", scoped |-> scoped]
  /\ hist' = [hist EXCEPT !.connectResult = "none", !.exited = FALSE]
  /\ UNCHANGED <<is_connected, is_running, receive_thread, current_velocity,
                 odometry_data, imu_data, battery_voltage, last_update_time,
                 data_lock, linkDown, rx, tx, txArgs, clock, caller, reader,
                 observer, stream, feed, delivered, poses, framesLeft,
                 cmdsLeft>>

\* serial.Serial(...): raises SerialException when the port cannot be
\* opened; connect returns False (connectResult "failed") and __enter__
\* raises ConnectionError (connectResult "raised").
\* scoped = TRUE is the call through __enter__.
ConnOpen(scoped) ==
  /\ main.pc = "idle"
  /\ scoped => ~hist.inBlock
  /\ portsOpened < MaxThreads
  /\ IF linkDown
     THEN /\ hist' = [hist EXCEPT !.connectResult =
                                    IF scoped THEN "raised" ELSE "failed"]
          /\ UNCHANGED <<serial_conn, openPorts, portsOpened, main>>
     ELSE /\ serial_conn' = portsOpened + 1
          /\ openPorts' = openPorts \cup {portsOpened + 1}
          /\ portsOpened' = portsOpened + 1
          /\ main' = [pc |-> "c_flag", scoped |-> scoped]
          /\ hist' = [hist EXCEPT !.connectResult = "none", !.exited = FALSE]
  /\ UNCHANGED <<is_connected, is_running, receive_thread, current_velocity,
                 odometry_data, imu_data, battery_voltage, last_update_time,
                 data_lock, linkDown, rx, tx, txArgs, clock, caller, reader,
                 observer, stream, feed, delivered, poses, framesLeft,
                 cmdsLeft>>

\* self.is_connected = True
ConnFlag ==
  /\ main.pc = "c_flag"
  /\ is_connected' = TRUE
  /\ main' = [main EXCEPT !.pc = "c_thread"]
  /\ hist' = [hist EXCEPT !.discReturned = FALSE]
  /\ UNCHANGED <<is_running, serial_conn, receive_thread, current_velocity,
                 odometry_data, imu_data, battery_voltage, last_update_time,
                 data_lock, transportVars, caller, reader, observer, stream,
                 feed, delivered, poses, framesLeft, cmdsLeft>>

\* _start_receive_thread: a new thread running _receive_data
ConnStartThread ==
  /\ main.pc = "c_thread"
  /\ is_running' = TRUE
  /\ receive_thread' = portsOpened
  /\ reader' = [reader EXCEPT ![portsOpened] = ReaderIdle("top", <<>>)]
  /\ main' = [main EXCEPT !.pc = "c_type"]
  /\ UNCHANGED <<is_connected, serial_conn, current_velocity, odometry_data,
                 imu_data, battery_voltage, last_update_time, data_lock,
                 transportVars, caller, observer, harnessVars>>

\* _set_robot_type(self.robot_type), then return True
ConnSetType ==
  /\ main.pc = "c_type"
  /\ SendPacket(CMD_ROBOT_TYPE, <<R20_MEC>>)
  /\ main' = [pc |-> "idle", scoped |-> FALSE]
  /\ hist' = [hist EXCEPT !.connectResult = "ok",
                          !.inBlock = IF main.scoped THEN TRUE ELSE @]
  /\ UNCHANGED <<sessionVars, openPorts, portsOpened, linkDown, rx, clock,
                 caller, reader, observer, stream, feed, delivered, poses,
                 framesLeft, cmdsLeft>>

Connect ==
  \/ \E scoped \in BOOLEAN : ConnOpen(scoped)
  \/ ConnFlag
  \/ ConnStartThread
  \/ ConnSetType

\* ------------------------------------------------ disconnect, __exit__
\* DiscCheck without the `if self.is_connected:`
DiscCheckNoGuard(scoped) ==
  /\ main.pc = "idle"
  /\ scoped => hist.inBlock
  /\ main' = [pc |-> "d_zero", scoped |-> scoped]
  /\ UNCHANGED <<sessionVars, transportVars, caller, reader, observer,
                 harnessVars>>

\* `if self.is_connected:`; scoped = TRUE is the call through __exit__
DiscCheck(scoped) ==
  /\ main.pc = "idle"
  /\ scoped => hist.inBlock
  /\ IF is_connected
     THEN /\ main' = [pc |-> "d_zero", scoped |-> scoped]
          /\ UNCHANGED hist
     ELSE /\ hist' = [hist EXCEPT !.discReturned = TRUE,
                                  !.discNoop = TRUE,
                                  !.exited = IF scoped THEN TRUE ELSE @,
                                  !.inBlock = IF scoped THEN FALSE ELSE @]
          /\ UNCHANGED main
  /\ UNCHANGED <<sessionVars, transportVars, caller, reader, observer,
                 stream, feed, delivered, poses, framesLeft, cmdsLeft>>

\* self.set_velocity(0.0, 0.0, 0.0): its own `if not self.is_connected`
DiscZeroCheck ==
  /\ main.pc = "d_zero"
  /\ main' = [main EXCEPT !.pc = IF is_connected THEN "d_send" ELSE "d_stop"]
  /\ UNCHANGED <<sessionVars, transportVars, caller, reader, observer,
                 harnessVars>>

DiscZeroSend ==
  /\ main.pc = "d_send"
  /\ SendPacket(CMD_VELOCITY, PackH(0) \o PackH(0) \o PackH(0))
  /\ main' = [main EXCEPT !.pc = "d_store"]
  /\ hist' = [hist EXCEPT !.zeroSent = (serial_conn # 0 /\ is_connected)]
  /\ UNCHANGED <<sessionVars, openPorts, portsOpened, linkDown, rx, clock,
                 caller, reader, observer, stream, feed, delivered, poses,
                 framesLeft, cmdsLeft>>

DiscZeroStore ==
  /\ main.pc = "d_store"
  /\ data_lock = 0
  /\ current_velocity' = ZeroVelocity
  /\ main' = [main EXCEPT !.pc = "d_stop"]
  /\ hist' = [hist EXCEPT !.zeroStored = TRUE]
  /\ UNCHANGED <<is_connected, is_running, serial_conn, receive_thread,
                 odometry_data, imu_data, battery_voltage, last_update_time,
                 data_lock, transportVars, caller, reader, observer, stream,
                 feed, delivered, poses, framesLeft, cmdsLeft>>

\* self.is_running = False
DiscStop ==
  /\ main.pc = "d_stop"
  /\ is_running' = FALSE
  /\ main' = [main EXCEPT !.pc = "d_join"]
  /\ UNCHANGED <<is_connected, serial_conn, receive_thread, current_velocity,
                 odometry_data, imu_data, battery_voltage, last_update_time,
                 data_lock, transportVars, caller, reader, observer,
                 harnessVars>>

ReceiveThreadAlive ==
  receive_thread # 0 /\ reader[receive_thread].pc \notin {"none", "done"}

\* receive_thread.join(timeout=1.0): returns once the thread has ended
DiscJoinEnded ==
  /\ main.pc = "d_join"
  /\ ~ReceiveThreadAlive
  /\ main' = [main EXCEPT !.pc = "d_close"]
  /\ UNCHANGED <<sessionVars, transportVars, caller, reader, observer,
                 harnessVars>>

\* receive_thread.join(timeout=1.0): the timeout expires first
DiscJoinTimeout ==
  /\ main.pc = "d_join"
  /\ ReceiveThreadAlive
  /\ main' = [main EXCEPT !.pc = "d_close"]
  /\ UNCHANGED <<sessionVars, transportVars, caller, reader, observer,
                 harnessVars>>

\* self.serial_conn.close()
DiscClose ==
  /\ main.pc = "d_close"
  /\ openPorts' = IF serial_conn # 0 THEN openPorts \ {serial_conn}
                  ELSE openPorts
  /\ rx' = <<>>
  /\ main' = [main EXCEPT !.pc = "d_flag"]
  /\ UNCHANGED <<sessionVars, portsOpened, linkDown, tx, txArgs, clock,
                 caller, reader, observer, harnessVars>>

\* self.is_connected = False, and disconnect returns
DiscFlag ==
  /\ main.pc = "d_flag"
  /\ is_connected' = FALSE
  /\ main' = [pc |-> "idle", scoped |-> FALSE]
  /\ hist' = [hist EXCEPT !.discReturned = TRUE,
                          !.discNoop = FALSE,
                          !.zeroSent = FALSE,
                          !.zeroStored = FALSE,
                          !.exited = IF main.scoped THEN TRUE ELSE @,
                          !.inBlock = IF main.scoped THEN FALSE ELSE @]
  /\ UNCHANGED <<is_running, serial_conn, receive_thread, current_velocity,
                 odometry_data, imu_data, battery_voltage, last_update_time,
                 data_lock, transportVars, caller, reader, observer, stream,
                 feed, delivered, poses, framesLeft, cmdsLeft>>

Disconnect ==
  \/ \E scoped \in BOOLEAN : DiscCheck(scoped)
  \/ DiscZeroCheck
  \/ DiscZeroSend
  \/ DiscZeroStore
  \/ DiscStop
  \/ DiscJoinEnded
  \/ DiscJoinTimeout
  \/ DiscClose
  \/ DiscFlag


\* ------------------------------------------------ command operations
\* the float arguments set_velocity is called with
VelocityArgs == {<<3000, 20, 10>>, <<-15, 20100, 880>>}

\* the arguments (r, g, b, mode) set_rgb_light is called with
LightArgs == {<<-1, 91, 300, 1>>, <<255, 0, 128, 2>>}

\* max(0, min(255, r))
Clamp(r) == IF r < 0 THEN 0 ELSE IF r > 255 THEN 255 ELSE r

\* BeginCommand without the `if not self.is_connected: return`
BeginCommandNoGuard(c, cmd_id, data, args) ==
  /\ caller[c].pc = "idle"
  /\ cmdsLeft > 0
  /\ cmdsLeft' = cmdsLeft - 1
  /\ caller' = [caller EXCEPT ![c] = [pc |-> "send", cmd_id |-> cmd_id,
                                      data |-> data, args |-> args]]
  /\ UNCHANGED <<sessionVars, transportVars, main, reader, observer, stream,
                 feed, delivered, poses, framesLeft, hist>>

\* The head of every command operation: `if not self.is_connected: return`,
\* then the payload is packed; _send_packet is the caller's next step.
BeginCommand(c, cmd_id, data, args) ==
  /\ caller[c].pc = "idle"
  /\ cmdsLeft > 0
  /\ cmdsLeft' = cmdsLeft - 1
  /\ caller' = IF is_connected
               THEN [caller EXCEPT ![c] = [pc |-> "send", cmd_id |-> cmd_id,
                                           data |-> data, args |-> args]]
               ELSE caller
  /\ hist' = IF is_connected THEN hist ELSE [hist EXCEPT !.ignored = cmd_id]
  /\ UNCHANGED <<sessionVars, transportVars, main, reader, observer, stream,
                 feed, delivered, poses, framesLeft>>

\* struct.pack('<hhh', int(vx * 1000), int(vy * 1000), int(vw * 1000))
VelocityPayload(v) ==
  PackH(ToMilli(v[1])) \o PackH(ToMilli(v[2])) \o PackH(ToMilli(v[3]))

SetVelocity(c, v) == BeginCommand(c, CMD_VELOCITY, VelocityPayload(v), v)

SetBeeper(c, enable) ==
  BeginCommand(c, CMD_BEEPER, <<IF enable THEN 1 ELSE 0>>, <<enable>>)

SetRgbLight(c, r, g, b, mode) ==
  BeginCommand(c, CMD_RGB_LIGHT, <<mode, 0, 0, Clamp(r), Clamp(g), Clamp(b)>>,
               <<r, g, b, mode>>)

SaveLightSetting(c) ==
  BeginCommand(c, CMD_LIGHT_SAVE, <<SENTINEL>>, <<>>)

CalibrateImu(c) ==
  BeginCommand(c, CMD_IMU_CALIBRATE, <<SENTINEL>>, <<>>)

\* self._send_packet(cmd_id, data) of a command operation
CallSend(c) ==
  /\ caller[c].pc = "send"
  /\ SendPacket(caller[c].cmd_id, caller[c].data)
  /\ caller' = [caller EXCEPT ![c] =
                  IF caller[c].cmd_id = CMD_VELOCITY
                  THEN [@ EXCEPT !.pc = "store"]
                  ELSE CallerIdle]
  /\ hist' = IF /\ caller[c].cmd_id = CMD_VELOCITY
                /\ serial_conn # 0 /\ is_connected /\ ~CanWrite
             THEN [hist EXCEPT !.writeRaised = caller[c].args]
             ELSE hist
  /\ UNCHANGED <<sessionVars, openPorts, portsOpened, linkDown, rx, clock,
                 main, reader, observer, stream, feed, delivered, poses,
                 framesLeft, cmdsLeft>>

\* CallStore writing the vx field alone of the stored velocity
CallStoreFieldwise(c) ==
  /\ caller[c].pc = "store"
  /\ data_lock = 0
  /\ current_velocity' = [current_velocity EXCEPT ![1] = caller[c].args[1]]
  /\ caller' = [caller EXCEPT ![c] = CallerIdle]
  /\ UNCHANGED <<is_connected, is_running, serial_conn, receive_thread,
                 odometry_data, imu_data, battery_voltage, last_update_time,
                 data_lock, transportVars, main, reader, observer,
                 harnessVars>>

\* CallStore keeping the old velocity when the frame did not reach the port
CallStoreIfWritten(c) ==
  /\ caller[c].pc = "store"
  /\ data_lock = 0
  /\ current_velocity' = IF tx = Encode(CMD_VELOCITY, caller[c].data)
                         THEN caller[c].args ELSE current_velocity
  /\ caller' = [caller EXCEPT ![c] = CallerIdle]
  /\ UNCHANGED <<is_connected, is_running, serial_conn, receive_thread,
                 odometry_data, imu_data, battery_voltage, last_update_time,
                 data_lock, transportVars, main, reader, observer,
                 harnessVars>>

\* with self.data_lock: self.current_velocity = Velocity(vx, vy, vw)
CallStore(c) ==
  /\ caller[c].pc = "store"
  /\ data_lock = 0
  /\ current_velocity' = caller[c].args
  /\ caller' = [caller EXCEPT ![c] = CallerIdle]
  /\ UNCHANGED <<is_connected, is_running, serial_conn, receive_thread,
                 odometry_data, imu_data, battery_voltage, last_update_time,
                 data_lock, transportVars, main, reader, observer,
                 harnessVars>>

\* get_current_velocity: `with self.data_lock: return self.current_velocity`;
\* the Velocity object returned is never written to after it is built
GetCurrentVelocity ==
  /\ data_lock = 0
  /\ hist' = [hist EXCEPT !.seen = current_velocity]
  /\ UNCHANGED <<sessionVars, transportVars, threadVars, stream, feed,
                 delivered, poses, framesLeft, cmdsLeft>>

\* ---------------------------------------------------- the read loop
\* RLoop that goes round whatever is_running says (`while True:`)
RLoopIgnoresStop(t) ==
  /\ reader[t].pc = "top"
  /\ reader' = [reader EXCEPT ![t].pc = "read"]
  /\ UNCHANGED <<sessionVars, transportVars, main, caller, observer,
                 harnessVars>>

\* `while self.is_running:`
RLoop(t) ==
  /\ reader[t].pc = "top"
  /\ reader' = [reader EXCEPT ![t].pc = IF is_running THEN "read" ELSE "done"]
  /\ UNCHANGED <<sessionVars, transportVars, main, caller, observer,
                 harnessVars>>

\* RRead whose error handler ends the loop but leaves is_connected alone
RReadKeepsFlag(t) ==
  /\ reader[t].pc = "read"
  /\ IF serial_conn \in openPorts /\ ~linkDown
     THEN /\ reader' = [reader EXCEPT ![t].pc = "scan",
                                      ![t].buffer = @ \o rx]
          /\ rx' = <<>>
     ELSE /\ reader' = [reader EXCEPT ![t] = ReaderIdle("done", <<>>)]
          /\ UNCHANGED rx
  /\ UNCHANGED <<sessionVars, openPorts, portsOpened, linkDown, tx, txArgs,
                 clock, main, caller, observer, harnessVars>>

\* `if self.serial_conn.in_waiting > 0: buffer.extend(read(in_waiting))`;
\* in_waiting raises on a closed port or a dead link, and the handler of
\* line 251 sets is_connected = False and leaves the loop
RRead(t) ==
  /\ reader[t].pc = "read"
  /\ IF serial_conn \in openPorts /\ ~linkDown
     THEN /\ reader' = [reader EXCEPT ![t].pc = "scan",
                                      ![t].buffer = @ \o rx]
          /\ rx' = <<>>
          /\ UNCHANGED is_connected
     ELSE /\ reader' = [reader EXCEPT ![t] = ReaderIdle("done", <<>>)]
          /\ is_connected' = FALSE
          /\ UNCHANGED rx
  /\ UNCHANGED <<is_running, serial_conn, receive_thread, current_velocity,
                 odometry_data, imu_data, battery_voltage, last_update_time,
                 data_lock, openPorts, portsOpened, linkDown, tx, txArgs,
                 clock, main, caller, observer, harnessVars>>

\* one pass of `while len(buffer) >= 5:`; a valid packet is handed to
\* _process_received_data, and time.sleep(0.001) follows the loop
RScan(t) ==
  /\ reader[t].pc = "scan"
  /\ \E r \in {ScanStep(reader[t].buffer)} :
       CASE r.kind = "stop" ->
              /\ reader' = [reader EXCEPT ![t] = ReaderIdle("top", r.buffer)]
              /\ UNCHANGED <<is_connected, delivered>>
         [] r.kind = "next" ->
              /\ reader' = [reader EXCEPT ![t].buffer = r.buffer]
              /\ UNCHANGED <<is_connected, delivered>>
         [] r.kind = "frame" ->
              /\ reader' = [reader EXCEPT ![t].pc = "proc",
                                          ![t].buffer = r.buffer,
                                          ![t].cmd_id = r.cmd_id,
                                          ![t].data = r.data]
              /\ delivered' = Append(delivered, <<r.cmd_id, r.data>>)
              /\ UNCHANGED is_connected
         [] OTHER ->
              /\ reader' = [reader EXCEPT ![t] = ReaderIdle("done", <<>>)]
              /\ is_connected' = FALSE
              /\ UNCHANGED delivered
  /\ UNCHANGED <<is_running, serial_conn, receive_thread, current_velocity,
                 odometry_data, imu_data, battery_voltage, last_update_time,
                 data_lock, transportVars, main, caller, observer, stream,
                 feed, poses, framesLeft, cmdsLeft, hist>>

\* RProcess testing the payload length alone, not the command id
RProcessAnyId(t) ==
  /\ reader[t].pc = "proc"
  /\ \E now \in {clock - 1, clock, clock + 1} :
       /\ now \in 0..MaxTime
       /\ clock' = now
       /\ reader' =
            [reader EXCEPT
               ![t].current_time = now,
               ![t].dt = now - last_update_time,
               ![t].raw = IF Len(reader[t].data) = TELEMETRY_LEN
                          THEN UnpackTelemetry(reader[t].data) ELSE <<>>,
               ![t].pc = IF Len(reader[t].data) = TELEMETRY_LEN
                         THEN "lock" ELSE "stamp"]
       /\ hist' = IF Len(reader[t].data) = TELEMETRY_LEN
                  THEN [hist EXCEPT !.prevSample = hist.lastSample,
                                    !.lastSample = now]
                  ELSE hist
  /\ UNCHANGED <<sessionVars, openPorts, portsOpened, linkDown, rx, tx,
                 txArgs, main, caller, observer, stream, feed, delivered,
                 poses, framesLeft, cmdsLeft>>

\* _process_received_data, lines 257-266: the clock is read, dt is taken
\* against last_update_time, and a 20-byte payload with the telemetry id
\* is unpacked
RProcess(t) ==
  /\ reader[t].pc = "proc"
  /\ \E now \in {clock - 1, clock, clock + 1} :
       /\ now \in 0..MaxTime
       /\ clock' = now
       /\ reader' =
            [reader EXCEPT
               ![t].current_time = now,
               ![t].dt = now - last_update_time,
               ![t].raw = IF /\ reader[t].cmd_id = ID_INTEGRATED_DATA
                             /\ Len(reader[t].data) = TELEMETRY_LEN
                          THEN UnpackTelemetry(reader[t].data) ELSE <<>>,
               ![t].pc = IF /\ reader[t].cmd_id = ID_INTEGRATED_DATA
                            /\ Len(reader[t].data) = TELEMETRY_LEN
                         THEN "lock" ELSE "stamp"]
       /\ hist' = IF /\ reader[t].cmd_id = ID_INTEGRATED_DATA
                     /\ Len(reader[t].data) = TELEMETRY_LEN
                  THEN [hist EXCEPT !.prevSample = hist.lastSample,
                                    !.lastSample = now]
                  ELSE hist
  /\ UNCHANGED <<sessionVars, openPorts, portsOpened, linkDown, rx, tx,
                 txArgs, main, caller, observer, stream, feed, delivered,
                 poses, framesLeft, cmdsLeft>>


\* RMeasure taking delta_y at the heading the sample turns to
RMeasureHeadingAfter(t) ==
  /\ reader[t].pc = "lock"
  /\ data_lock = 0
  /\ data_lock' = t
  /\ LET raw == reader[t].raw
         vx == FromMilli(raw[7])
         vy == FromMilli(raw[8])
         vw == FromMilli(raw[9])
         th == odometry_data.theta
         dt == reader[t].dt
     IN  /\ imu_data' = [accel_x |-> AccelScale(raw[1]),
                         accel_y |-> AccelScale(raw[2]),
                         accel_z |-> AccelScale(raw[3]),
                         gyro_x |-> GyroScale(raw[4]),
                         gyro_y |-> GyroScale(raw[5]),
                         gyro_z |-> GyroScale(raw[6])]
         /\ odometry_data' = [odometry_data EXCEPT !.vx = vx, !.vy = vy,
                                                   !.vw = vw]
         /\ reader' =
              IF dt > 0
              THEN [reader EXCEPT
                      ![t].pc = "x",
                      ![t].delta =
                        <<(vx * Cos(th) - vy * Sin(th)) * dt,
                          (vx * Sin(th + vw * dt)
                             + vy * Cos(th + vw * dt)) * dt,
                          vw * dt>>]
              ELSE [reader EXCEPT ![t].pc = "batt"]
  /\ hist' = [hist EXCEPT !.before = <<odometry_data.x, odometry_data.y,
                                        odometry_data.theta>>]
  /\ UNCHANGED <<is_connected, is_running, serial_conn, receive_thread,
                 current_velocity, battery_voltage, last_update_time,
                 transportVars, main, caller, observer, stream, feed,
                 delivered, poses, framesLeft, cmdsLeft>>

\* RMeasure leaving a sample with dt <= 0 unpublished
RMeasureSkipsStaleSample(t) ==
  /\ reader[t].pc = "lock"
  /\ data_lock = 0
  /\ data_lock' = t
  /\ LET raw == reader[t].raw
         vx == FromMilli(raw[7])
         vy == FromMilli(raw[8])
         vw == FromMilli(raw[9])
         th == odometry_data.theta
         dt == reader[t].dt
     IN  IF dt > 0
         THEN /\ imu_data' = [accel_x |-> AccelScale(raw[1]),
                              accel_y |-> AccelScale(raw[2]),
                              accel_z |-> AccelScale(raw[3]),
                              gyro_x |-> GyroScale(raw[4]),
                              gyro_y |-> GyroScale(raw[5]),
                              gyro_z |-> GyroScale(raw[6])]
              /\ odometry_data' = [odometry_data EXCEPT !.vx = vx, !.vy = vy,
                                                        !.vw = vw]
              /\ reader' =
                   [reader EXCEPT
                      ![t].pc = "x",
                      ![t].delta = <<(vx * Cos(th) - vy * Sin(th)) * dt,
                                     (vx * Sin(th) + vy * Cos(th)) * dt,
                                     vw * dt>>]
         ELSE /\ reader' = [reader EXCEPT ![t].pc = "batt"]
              /\ UNCHANGED <<imu_data, odometry_data>>
  /\ hist' = [hist EXCEPT !.before = <<odometry_data.x, odometry_data.y,
                                        odometry_data.theta>>]
  /\ UNCHANGED <<is_connected, is_running, serial_conn, receive_thread,
                 current_velocity, battery_voltage, last_update_time,
                 transportVars, main, caller, observer, stream, feed,
                 delivered, poses, framesLeft, cmdsLeft>>

\* with self.data_lock: the IMU fields and the measured velocities are
\* written (lines 270-280) and, when dt > 0, delta_x, delta_y and
\* delta_theta are computed from them and the heading (lines 283-286)
RMeasure(t) ==
  /\ reader[t].pc = "lock"
  /\ data_lock = 0
  /\ data_lock' = t
  /\ LET raw == reader[t].raw
         vx == FromMilli(raw[7])
         vy == FromMilli(raw[8])
         vw == FromMilli(raw[9])
         th == odometry_data.theta
         dt == reader[t].dt
     IN  /\ imu_data' = [accel_x |-> AccelScale(raw[1]),
                         accel_y |-> AccelScale(raw[2]),
                         accel_z |-> AccelScale(raw[3]),
                         gyro_x |-> GyroScale(raw[4]),
                         gyro_y |-> GyroScale(raw[5]),
                         gyro_z |-> GyroScale(raw[6])]
         /\ odometry_data' = [odometry_data EXCEPT !.vx = vx, !.vy = vy,
                                                   !.vw = vw]
         /\ reader' =
              IF dt > 0
              THEN [reader EXCEPT
                      ![t].pc = "x",
                      ![t].delta = <<(vx * Cos(th) - vy * Sin(th)) * dt,
                                     (vx * Sin(th) + vy * Cos(th)) * dt,
                                     vw * dt>>]
              ELSE [reader EXCEPT ![t].pc = "batt"]
  /\ hist' = [hist EXCEPT !.before = <<odometry_data.x, odometry_data.y,
                                        odometry_data.theta>>]
  /\ UNCHANGED <<is_connected, is_running, serial_conn, receive_thread,
                 current_velocity, battery_voltage, last_update_time,
                 transportVars, main, caller, observer, stream, feed,
                 delivered, poses, framesLeft, cmdsLeft>>

\* self.odometry_data.x += delta_x
RIntegrateX(t) ==
  /\ reader[t].pc = "x"
  /\ odometry_data' = [odometry_data EXCEPT !.x = @ + reader[t].delta[1]]
  /\ reader' = [reader EXCEPT ![t].pc = "y"]
  /\ UNCHANGED <<is_connected, is_running, serial_conn, receive_thread,
                 current_velocity, imu_data, battery_voltage,
                 last_update_time, data_lock, transportVars, main, caller,
                 observer, harnessVars>>

\* self.odometry_data.y += delta_y
RIntegrateY(t) ==
  /\ reader[t].pc = "y"
  /\ odometry_data' = [odometry_data EXCEPT !.y = @ + reader[t].delta[2]]
  /\ reader' = [reader EXCEPT ![t].pc = "theta"]
  /\ UNCHANGED <<is_connected, is_running, serial_conn, receive_thread,
                 current_velocity, imu_data, battery_voltage,
                 last_update_time, data_lock, transportVars, main, caller,
                 observer, harnessVars>>

\* self.odometry_data.theta += delta_theta: the integration step is complete
RIntegrateTheta(t) ==
  /\ reader[t].pc = "theta"
  /\ odometry_data' = [odometry_data EXCEPT !.theta = @ + reader[t].delta[3]]
  /\ poses' = poses \cup {<<odometry_data.x, odometry_data.y,
                            odometry_data.theta + reader[t].delta[3]>>}
  /\ hist' = [hist EXCEPT !.dts = Append(@, reader[t].dt)]
  /\ reader' = [reader EXCEPT ![t].pc = "batt"]
  /\ UNCHANGED <<is_connected, is_running, serial_conn, receive_thread,
                 current_velocity, imu_data, battery_voltage,
                 last_update_time, data_lock, transportVars, main, caller,
                 observer, stream, feed, delivered, framesLeft, cmdsLeft>>

\* RBattery that does not release the lock
RBatteryKeepsLock(t) ==
  /\ reader[t].pc = "batt"
  /\ battery_voltage' = FromCenti(reader[t].raw[10])
  /\ reader' = [reader EXCEPT ![t].pc = "stamp"]
  /\ UNCHANGED <<is_connected, is_running, serial_conn, receive_thread,
                 current_velocity, odometry_data, imu_data, last_update_time,
                 data_lock, transportVars, main, caller, observer,
                 harnessVars>>

\* self.battery_voltage = raw_values[9] / 100.0, and the lock is released
RBattery(t) ==
  /\ reader[t].pc = "batt"
  /\ battery_voltage' = FromCenti(reader[t].raw[10])
  /\ data_lock' = 0
  /\ reader' = [reader EXCEPT ![t].pc = "stamp"]
  /\ UNCHANGED <<is_connected, is_running, serial_conn, receive_thread,
                 current_velocity, odometry_data, imu_data, last_update_time,
                 transportVars, main, caller, observer, harnessVars>>

\* RStamp after which the inner loop is left, one frame per pass
RStampEndsPass(t) ==
  /\ reader[t].pc = "stamp"
  /\ last_update_time' = reader[t].current_time
  /\ reader' = [reader EXCEPT ![t] = ReaderIdle("top", reader[t].buffer)]
  /\ UNCHANGED <<is_connected, is_running, serial_conn, receive_thread,
                 current_velocity, odometry_data, imu_data, battery_voltage,
                 data_lock, transportVars, main, caller, observer,
                 harnessVars>>

\* self.last_update_time = current_time (line 297), for every packet
RStamp(t) ==
  /\ reader[t].pc = "stamp"
  /\ last_update_time' = reader[t].current_time
  /\ reader' = [reader EXCEPT ![t] = ReaderIdle("scan", reader[t].buffer)]
  /\ UNCHANGED <<is_connected, is_running, serial_conn, receive_thread,
                 current_velocity, odometry_data, imu_data, battery_voltage,
                 data_lock, transportVars, main, caller, observer,
                 harnessVars>>

ReceiveData(t) ==
  \/ RLoop(t)
  \/ RRead(t)
  \/ RScan(t)
  \/ RProcess(t)
  \/ RMeasure(t)
  \/ RIntegrateX(t)
  \/ RIntegrateY(t)
  \/ RIntegrateTheta(t)
  \/ RBattery(t)
  \/ RStamp(t)

\* ------------------------------------------------------ get_odometry
\* `with self.data_lock: return self.odometry_data`: the caller is handed
\* the session's own OdometryData object
GetOdometry ==
  /\ observer.pc \in {"idle", "done"}
  /\ data_lock = 0
  /\ observer' = [ObserverIdle EXCEPT !.pc = "x"]
  /\ UNCHANGED <<sessionVars, transportVars, main, caller, reader,
                 harnessVars>>

\* the caller reads .x, .y and .theta of the object it was handed
ObsReadX ==
  /\ observer.pc = "x"
  /\ observer' = [observer EXCEPT !.x = odometry_data.x, !.pc = "y"]
  /\ UNCHANGED <<sessionVars, transportVars, main, caller, reader,
                 harnessVars>>

ObsReadY ==
  /\ observer.pc = "y"
  /\ observer' = [observer EXCEPT !.y = odometry_data.y, !.pc = "theta"]
  /\ UNCHANGED <<sessionVars, transportVars, main, caller, reader,
                 harnessVars>>

ObsReadTheta ==
  /\ observer.pc = "theta"
  /\ observer' = [observer EXCEPT !.theta = odometry_data.theta,
                                  !.pc = "done"]
  /\ UNCHANGED <<sessionVars, transportVars, main, caller, reader,
                 harnessVars>>

Observe == GetOdometry \/ ObsReadX \/ ObsReadY \/ ObsReadTheta


\* ------------------------------------------- the device on the wire
\* struct '<H'
PackU16(v) == <<v % 256, v \div 256>>

\* a frame as the motion-control board sends it (the wire format the read
\* loop parses): sync, length, id, payload, additive checksum
DeviceFrame(cmd_id, payload) ==
  LET body == <<HEADER1, HEADER2, 5 + Len(payload), cmd_id>> \o payload
  IN  body \o <<SumBytes(body) % 256>>

\* the raw fields of a telemetry sample: accel xyz, gyro xyz, vx, vy, vw
\* (signed 16 bit) and the battery (unsigned 16 bit)
Samples ==
  { <<16384, 0, -16384, 0, 0, 100, 1000, 0, 0, 1200>>,
    <<0, 0, 0, 0, 0, -100, 300, -500, 1571, 40000>> }

TelemetryPayload(s) ==
  PackH(s[1]) \o PackH(s[2]) \o PackH(s[3]) \o PackH(s[4]) \o PackH(s[5])
    \o PackH(s[6]) \o PackH(s[7]) \o PackH(s[8]) \o PackH(s[9])
    \o PackU16(s[10])

PortReady == serial_conn \in openPorts /\ ~linkDown

\* the board sends one telemetry frame; it arrives whole
DeviceTelemetry(s) ==
  /\ PortReady
  /\ framesLeft > 0
  /\ framesLeft' = framesLeft - 1
  /\ rx' = rx \o DeviceFrame(ID_INTEGRATED_DATA, TelemetryPayload(s))
  /\ hist' = [hist EXCEPT !.sent =
                Append(@, <<ID_INTEGRATED_DATA, TelemetryPayload(s)>>)]
  /\ UNCHANGED <<sessionVars, openPorts, portsOpened, linkDown, tx, txArgs,
                 clock, threadVars, stream, feed, delivered, poses, cmdsLeft>>

\* frames that are not telemetry samples: another id, or the telemetry id
\* with a payload that is not 20 bytes long
OtherFrames == {<<3, <<>>>>, <<ID_INTEGRATED_DATA, <<0, 20>>>>}

\* the board sends a checksum-valid frame that is not a telemetry sample
DeviceOther(f) ==
  /\ PortReady
  /\ framesLeft > 0
  /\ framesLeft' = framesLeft - 1
  /\ rx' = rx \o DeviceFrame(f[1], f[2])
  /\ hist' = [hist EXCEPT !.sent = Append(@, f)]
  /\ UNCHANGED <<sessionVars, openPorts, portsOpened, linkDown, tx, txArgs,
                 clock, threadVars, stream, feed, delivered, poses, cmdsLeft>>

\* the cable is pulled: in_waiting and write raise from now on
Unplug ==
  /\ ~linkDown
  /\ linkDown' = TRUE
  /\ UNCHANGED <<sessionVars, openPorts, portsOpened, rx, tx, txArgs, clock,
                 threadVars, harnessVars>>

\* ---- a single frame under test, sent through noise and in chunks
DeviceIds == {3, ID_INTEGRATED_DATA}

PayloadBytes == {0, 20}

GarbageBytes == {85, 170}

RECURSIVE SeqsUpTo(_, _)
SeqsUpTo(S, n) ==
  IF n = 0 THEN {<<>>}
  ELSE LET shorter == SeqsUpTo(S, n - 1)
       IN  shorter \cup {Append(q, b) : q \in shorter, b \in S}

\* a telemetry sample at the ends of the 16-bit ranges
EdgeSample == <<-32768, 32767, -1, 1, -32768, 32767, 32767, -32768, 0, 65535>>

\* the frames (cmd_id, payload) the board may send
DeviceFrames ==
  (DeviceIds \X SeqsUpTo(PayloadBytes, MaxPayload))
    \cup {<<id, TelemetryPayload(s)>> : id \in DeviceIds, s \in Samples}
    \cup {<<ID_INTEGRATED_DATA, TelemetryPayload(EdgeSample)>>}

Quiet ==
  /\ feed.kind = "none"
  /\ main.pc = "idle"
  /\ hist.connectResult = "ok"
  /\ \A c \in Callers : caller[c].pc = "idle"

\* the board sends the frame (cmd_id, payload), in a run where no command
\* has been issued
SrcDevice(cmd_id, payload) ==
  /\ Quiet
  /\ cmdsLeft > 0
  /\ stream' = DeviceFrame(cmd_id, payload)
  /\ feed' = [FeedNone EXCEPT !.kind = "device", !.cmd_id = cmd_id,
                              !.payload = payload]
  /\ cmdsLeft' = 0
  /\ UNCHANGED <<sessionVars, transportVars, threadVars, delivered, poses,
                 framesLeft, hist>>

\* a loopback plug returns the frame the session wrote last
SrcEcho ==
  /\ Quiet
  /\ tx # <<>>
  /\ stream' = tx
  /\ feed' = [FeedNone EXCEPT !.kind = "echo", !.cmd_id = txArgs[1],
                              !.payload = txArgs[2]]
  /\ cmdsLeft' = 0
  /\ UNCHANGED <<sessionVars, transportVars, threadVars, delivered, poses,
                 framesLeft, hist>>

Untouched ==
  /\ feed.kind # "none"
  /\ feed.flip = -1
  /\ feed.garbage = <<>>
  /\ feed.chunks = "none"

\* line noise flips bit i of the frame
NoiseFlip(i) ==
  /\ Untouched
  /\ i \in 0..(8 * Len(stream) - 1)
  /\ stream' = FlipBit(stream, i)
  /\ feed' = [feed EXCEPT !.flip = i]
  /\ UNCHANGED <<sessionVars, transportVars, threadVars, delivered, poses,
                 framesLeft, cmdsLeft, hist>>

\* line noise puts the bytes g in front of the frame
NoiseGarbage(g) ==
  /\ Untouched
  /\ g # <<>>
  /\ stream' = g \o stream
  /\ feed' = [feed EXCEPT !.garbage = g]
  /\ UNCHANGED <<sessionVars, transportVars, threadVars, delivered, poses,
                 framesLeft, cmdsLeft, hist>>

\* The next n bytes reach the port (in_waiting = n) once the read loop has
\* taken the bytes before them: one byte, or all that is left.  feed.chunks
\* tells how the stream has been cut so far: "whole" (one read), "bytes"
\* (one byte per read) or "mixed" (single bytes, then the rest).
Deliver(n) ==
  /\ feed.kind # "none"
  /\ PortReady
  /\ rx = <<>>
  /\ stream # <<>>
  /\ n \in {1, Len(stream)}
  /\ rx' = Take(stream, n)
  /\ stream' = Drop(stream, n)
  /\ feed' = [feed EXCEPT !.chunks =
                CASE n = 1 /\ @ \in {"none", "bytes"} -> "bytes"
                  [] @ = "none" -> "whole"
                  [] OTHER -> "mixed"]
  /\ UNCHANGED <<sessionVars, openPorts, portsOpened, linkDown, tx, txArgs,
                 clock, threadVars, delivered, poses, framesLeft, cmdsLeft,
                 hist>>

Wire ==
  \/ \E f \in DeviceFrames : SrcDevice(f[1], f[2])
  \/ SrcEcho
  \/ \E i \in 0..(8 * (MIN_PACKET + TELEMETRY_LEN) - 1) : NoiseFlip(i)
  \/ \E g \in SeqsUpTo(GarbageBytes, MaxGarbage) : NoiseGarbage(g)
  \/ \E n \in 1..(MIN_PACKET + TELEMETRY_LEN + MaxGarbage) : Deliver(n)

\* ------------------------------------------------- specifications
\* connect() called once, on a fresh session
ConnectOnce ==
  \/ portsOpened = 0 /\ ConnOpen(FALSE)
  \/ ConnFlag
  \/ ConnStartThread
  \/ ConnSetType

Commands(c) ==
  \/ \E v \in VelocityArgs : SetVelocity(c, v)
  \/ \E enable \in BOOLEAN : SetBeeper(c, enable)
  \/ \E a \in LightArgs : SetRgbLight(c, a[1], a[2], a[3], a[4])
  \/ SaveLightSetting(c)
  \/ CalibrateImu(c)
  \/ CallSend(c)
  \/ CallStore(c)

\* The lifecycle: connect/disconnect (also scoped), concurrent set_velocity
\* callers, the read loops and a link failure; the board stays silent, so
\* the read loops only ever find an empty port.
Init == InitSession /\ framesLeft = 0 /\ cmdsLeft = MaxCmds

ReceiveNothing(t) == RLoop(t) \/ RRead(t) \/ RScan(t)

Next ==
  \/ Connect
  \/ Disconnect
  \/ \E c \in Callers, v \in VelocityArgs : SetVelocity(c, v)
  \/ \E c \in Callers : CallSend(c)
  \/ \E c \in Callers : CallStore(c)
  \/ GetCurrentVelocity
  \/ \E t \in Threads : ReceiveNothing(t)
  \/ Unplug

Spec == Init /\ [][Next]_vars

\* Commands: the lifecycle with one caller issuing every command operation.
InitCmd == InitSession /\ framesLeft = 0 /\ cmdsLeft = MaxCmds

NextCmd ==
  \/ Connect
  \/ Disconnect
  \/ Commands("A")
  \/ \E t \in Threads : ReceiveNothing(t)
  \/ Unplug

SpecCmd == InitCmd /\ [][NextCmd]_vars

\* Odometry: one connected session, telemetry, and a caller of get_odometry.
InitOdo == InitSession /\ framesLeft = MaxFrames /\ cmdsLeft = 0

NextOdo ==
  \/ ConnectOnce
  \/ \E t \in Threads : ReceiveData(t)
  \/ \E s \in Samples : DeviceTelemetry(s)
  \/ \E f \in OtherFrames : DeviceOther(f)
  \/ Observe

SpecOdo == InitOdo /\ [][NextOdo]_vars

\* Codec: one connected session, one command or device frame on the wire,
\* possibly hit by noise, delivered to the read loop in chunks.
InitCodec == InitSession /\ framesLeft = 0 /\ cmdsLeft = 1

NextCodec ==
  \/ ConnectOnce
  \/ Commands("A")
  \/ \E t \in Threads : ReceiveData(t)
  \/ Wire

SpecCodec == InitCodec /\ [][NextCodec]_vars

\* Shutdown: one connected session receiving telemetry is disconnected.
InitShutdown == InitSession /\ framesLeft = MaxFrames /\ cmdsLeft = 0

NextShutdown ==
  \/ ConnectOnce
  \/ Disconnect
  \/ \E t \in Threads : ReceiveData(t)
  \/ \E s \in Samples : DeviceTelemetry(s)

SpecShutdown == InitShutdown /\ [][NextShutdown]_vars

\* Every started read loop is a thread the interpreter keeps scheduling, and
\* no step of its body waits for anything but the state lock.
SpecShutdownFair ==
  SpecShutdown /\ \A t \in Threads : WF_vars(ReceiveData(t))


\* =========================================================== claims
\* the frame under test, as it left its sender
FrameUnderTest ==
  IF feed.kind = "echo" THEN tx ELSE DeviceFrame(feed.cmd_id, feed.payload)

\* the frame under test is on the wire as sent: no noise
CleanFeed == feed.kind # "none" /\ feed.flip = -1 /\ feed.garbage = <<>>

\* every byte sent has been read and scanned
Drained ==
  /\ feed.kind # "none"
  /\ stream = <<>>
  /\ rx = <<>>
  /\ reader[1].pc \in {"top", "read"}

\* the read loop has met every byte sent, and ended or idles
Settled ==
  /\ feed.kind # "none"
  /\ stream = <<>>
  /\ rx = <<>>
  /\ reader[1].pc \in {"top", "read", "done"}

OnlyTheFrame == delivered = <<<<feed.cmd_id, feed.payload>>>>

\* the bytes g hold the sync marker 0xAA 0x55 somewhere
HoldsMarker(g) == \E k \in 1..(Len(g) - 1) : g[k] = 170 /\ g[k + 1] = 85

Pose == <<odometry_data.x, odometry_data.y, odometry_data.theta>>

\* ---- C1 (as claimed): whenever a caller of get_odometry has read x, y
\* and theta from the result, the three values are the pose of one
\* completed integration step (or the initial pose).
C1_SnapshotConsistent ==
  observer.pc = "done" =>
    <<observer.x, observer.y, observer.theta>> \in poses

\* ---- C2 (as claimed): once connect() has succeeded, no bytes received
\* from the transport end the read loop or make the session Disconnected
\* (in SpecCodec nothing else disconnects it).
C2_NoBytesStopTheLoop ==
  hist.connectResult = "ok" => is_connected /\ reader[1].pc # "done"

\* ---- C3 (as claimed): when __exit__ returns, the commanded velocity is
\* (0,0,0) and the session's transport is closed.
C3_ExitLeavesStoppedAndClosed ==
  [][(~hist.exited /\ hist'.exited) =>
       (current_velocity' = ZeroVelocity /\ serial_conn' \notin openPorts')]_vars

\* ---- C4 (as claimed): from the return of disconnect() until a new
\* connect() sets the session Connected, the commanded velocity is (0,0,0).
C4_ZeroAfterDisconnect ==
  hist.discReturned => current_velocity = ZeroVelocity

\* ---- C5 (as claimed): a valid frame with any one bit flipped never has
\* a frame delivered to the payload handler.
C5_AnyBitFlipDiscarded == feed.flip # -1 => delivered = <<>>

\* ---- C5 (what the scan does guarantee): a valid frame with one bit
\* flipped in its command id, payload or checksum never has a frame
\* delivered; the read loop goes on and, once the whole frame has arrived,
\* has dropped all of it.
C5_BodyBitFlipDiscarded ==
  feed.flip >= 24 =>
    /\ delivered = <<>>
    /\ reader[1].pc # "done"
    /\ Drained => reader[1].buffer = <<>>

C5_Witness ==
  /\ feed.flip >= 24
  /\ Drained
  /\ Len(FrameUnderTest) > MIN_PACKET
  /\ reader[1].buffer = <<>>
  /\ delivered = <<>>

\* ---- C6 (as claimed): a buffer holding garbage + valid frame, read in
\* one piece, is decoded to exactly the frame, for every garbage prefix.
C6_AnyGarbageResyncs ==
  (feed.garbage # <<>> /\ feed.chunks = "whole" /\ Settled) => OnlyTheFrame

\* ---- C6 (amended): a buffer holding garbage + valid frame, read in one
\* piece, is decoded to exactly the frame (same id, same payload) and
\* nothing is left over, for every garbage prefix that does not contain
\* the sync marker 0xAA 0x55.
C6_MarkerFreeGarbageResyncs ==
  (feed.garbage # <<>> /\ ~HoldsMarker(feed.garbage)
     /\ feed.chunks = "whole") =>
    /\ reader[1].pc # "done"
    /\ Settled => (OnlyTheFrame /\ reader[1].buffer = <<>>)

C6_Witness ==
  /\ feed.garbage # <<>>
  /\ ~HoldsMarker(feed.garbage)
  /\ 170 \in {feed.garbage[i] : i \in 1..Len(feed.garbage)}
  /\ feed.chunks = "whole"
  /\ Drained
  /\ OnlyTheFrame

\* ---- C7: the bytes _send_packet wrote for a command, fed back to the
\* read loop, are delivered as exactly one frame with the command's id and
\* payload, and the buffer is empty afterwards (all total_length bytes
\* consumed); the loop does not stop on them.
C7_RoundTrip ==
  (feed.kind = "echo" /\ CleanFeed) =>
    /\ reader[1].pc # "done"
    /\ Len(delivered) <= 1
    /\ Drained => (OnlyTheFrame /\ reader[1].buffer = <<>>)

C7_Witness ==
  /\ feed.kind = "echo"
  /\ CleanFeed
  /\ Drained
  /\ feed.cmd_id = CMD_VELOCITY
  /\ Len(feed.payload) = 6
  /\ OnlyTheFrame
  /\ reader[1].buffer = <<>>

\* ---- C8: while bytes of a valid frame are still to arrive, nothing has
\* been dropped (buffer, port and wire together still hold the frame) and
\* no frame has been delivered; once the last byte has been scanned,
\* exactly that frame has been delivered.
C8_PartialFrameStable ==
  CleanFeed =>
    /\ (stream # <<>> \/ rx # <<>>) =>
         /\ reader[1].buffer \o rx \o stream = FrameUnderTest
         /\ delivered = <<>>
    /\ reader[1].pc # "done"
    /\ Drained => OnlyTheFrame

C8_Witness ==
  /\ CleanFeed
  /\ feed.chunks = "bytes"
  /\ Len(FrameUnderTest) > MIN_PACKET
  /\ Drained
  /\ OnlyTheFrame

\* ---- C9: the frame last written by _send_packet(cmd_id, data) is
\* 0xAA, 0x55, 5 + len(data), cmd_id, the bytes of data, and the sum of
\* all those bytes modulo 256.
C9_FrameLayout ==
  tx # <<>> =>
    LET cmd_id == txArgs[1]
        data == txArgs[2]
        n == Len(tx)
    IN  /\ n = 5 + Len(data)
        /\ tx[1] = 170
        /\ tx[2] = 85
        /\ tx[3] = n
        /\ tx[4] = cmd_id
        /\ \A i \in 1..Len(data) : tx[4 + i] = data[i]
        /\ tx[n] = SumBytes(SubSeq(tx, 1, n - 1)) % 256
        /\ \A i \in 1..n : tx[i] \in Byte

C9_Witness ==
  /\ tx # <<>>
  /\ txArgs[1] = CMD_RGB_LIGHT
  /\ Len(tx) = 11

\* ---- C10 (as claimed): the first telemetry sample accepted does not
\* change the pose: while at most one sample has been handed to
\* _process_received_data, x, y and theta are still 0.
C10_FirstSampleSkipsIntegration ==
  Len(delivered) <= 1 => Pose = <<0, 0, 0>>

\* ---- C11 (as claimed): the dt with which an accepted telemetry sample is
\* integrated is the time since the previous accepted telemetry sample,
\* whatever other checksum-valid frames arrived in between.
C11_DtSincePreviousSample ==
  (reader[1].pc = "lock" /\ hist.prevSample # -1) =>
    reader[1].dt = reader[1].current_time - hist.prevSample

\* ---- C12 (as claimed): in the step in which connect() returns success the
\* session is Connected, its read loop is running, and the robot-type frame
\* (id 0x5A, payload the configured robot type) is written.
C12_ConnectReturnsConfigured ==
  [][(hist.connectResult # "ok" /\ hist'.connectResult = "ok") =>
       /\ is_connected'
       /\ is_running'
       /\ reader'[receive_thread'].pc \notin {"none", "done"}
       /\ CanWrite
       /\ tx' = Encode(CMD_ROBOT_TYPE, <<R20_MEC>>)]_vars

\* ---- C13: what get_current_velocity() returns, and what the session
\* holds, is always the whole argument triple of one set_velocity call or
\* the initial zero triple, with both callers inside set_velocity at once.
C13_VelocityNeverTorn ==
  /\ hist.seen \in VelocityArgs \cup {ZeroVelocity}
  /\ current_velocity \in VelocityArgs \cup {ZeroVelocity}

C13_Witness ==
  /\ hist.seen \in VelocityArgs
  /\ current_velocity = hist.seen
  /\ \E c \in Callers : /\ caller[c].pc = "store"
                         /\ caller[c].args \in VelocityArgs \ {hist.seen}

\* ---- C14: a command operation called while the session is Disconnected
\* returns at once: nothing is written, no session field changes (the
\* commanded velocity included) and the caller is not left inside the call.
C14_DisconnectedCommandsIgnored ==
  [][(cmdsLeft' < cmdsLeft /\ ~is_connected) =>
       /\ hist'.ignored # 0
       /\ UNCHANGED <<sessionVars, transportVars, caller>>]_vars

C14_Witness ==
  /\ hist.ignored = CMD_RGB_LIGHT
  /\ hist.discReturned
  /\ ~is_connected
  /\ cmdsLeft = 0
  /\ tx = Encode(CMD_VELOCITY, <<0, 0, 0, 0, 0, 0>>)

\* ---- C15: disconnect() called on a Disconnected session does not enter
\* its body: it writes nothing and changes no session field, so a second
\* disconnect() leaves the state the first one left.
C15_DisconnectIdempotent ==
  [][/\ (main.pc = "idle" /\ ~is_connected) =>
          main'.pc \notin {"d_zero", "d_send", "d_store", "d_stop", "d_join",
                           "d_close", "d_flag"}
     /\ (~hist.discNoop /\ hist'.discNoop) =>
          UNCHANGED <<sessionVars, transportVars, caller, reader>>]_vars

C15_Witness ==
  /\ hist.discNoop
  /\ ~is_connected
  /\ serial_conn # 0
  /\ serial_conn \notin openPorts
  /\ ~is_running
  /\ tx = Encode(CMD_VELOCITY, <<0, 0, 0, 0, 0, 0>>)

\* ---- C16: a read loop that meets a transport error ends and leaves the
\* session Disconnected; the session becomes Connected only inside
\* connect(), and Disconnected only at the end of disconnect() or when a
\* read loop ends on an error.
C16_ConnectionStateTransitions ==
  [][/\ (~is_connected /\ is_connected') =>
          (main.pc = "c_flag" /\ main'.pc = "c_thread")
     /\ (is_connected /\ ~is_connected') =>
          \/ main.pc = "d_flag" /\ main'.pc = "idle"
          \/ \E t \in Threads : /\ reader[t].pc \in {"read", "scan"}
                                 /\ reader'[t].pc = "done"
     /\ \A t \in Threads :
          (/\ reader[t].pc = "read"
           /\ serial_conn \notin openPorts \/ linkDown
           /\ reader'[t] # reader[t]) =>
            (reader'[t].pc = "done" /\ ~is_connected')]_vars

C16_Witness ==
  /\ linkDown
  /\ hist.connectResult = "ok"
  /\ main.pc = "idle"
  /\ reader[1].pc = "done"
  /\ is_running
  /\ ~is_connected
  /\ serial_conn \in openPorts

\* ---- C17: when the port cannot be opened, connect() goes no further: it
\* returns failure having changed no session field, started no read loop
\* and written nothing; through __enter__ the failure is raised and the
\* block is not entered.
C17_OpenFailureLeavesDisconnected ==
  [][/\ (main.pc = "idle" /\ linkDown) =>
          main'.pc \notin {"c_flag", "c_thread", "c_type"}
     /\ (/\ hist'.connectResult \in {"failed", "raised"}
         /\ hist'.connectResult # hist.connectResult) =>
          /\ UNCHANGED <<sessionVars, transportVars, reader, caller>>
          /\ hist'.inBlock = hist.inBlock
     /\ hist'.connectResult = "raised" => ~hist'.inBlock]_vars

C17_Witness ==
  /\ hist.connectResult = "raised"
  /\ ~hist.inBlock
  /\ ~is_connected
  /\ serial_conn = 0
  /\ \A t \in Threads : reader[t].pc = "none"
  /\ tx = <<>>

\* a frame _process_received_data does not take for a telemetry sample
NotASample(cmd_id, payload) == cmd_id # 16 \/ Len(payload) # 20

\* ---- C18: a checksum-valid frame with another command id, or with the
\* telemetry id and a payload that is not 20 bytes long, reaches the
\* handler and is dropped there: pose, inertial sample, measured velocity,
\* battery voltage and commanded velocity stay as they are and the read
\* loop goes on.
C18_NonSampleFramesChangeNothing ==
  [][(CleanFeed /\ NotASample(feed.cmd_id, feed.payload)) =>
       /\ UNCHANGED <<odometry_data, imu_data, battery_voltage,
                      current_velocity>>
       /\ reader'[1].pc \notin {"done", "lock"}
       /\ Drained' => OnlyTheFrame']_vars

C18_Witness ==
  /\ CleanFeed
  /\ feed.cmd_id = 3
  /\ Len(feed.payload) = TELEMETRY_LEN
  /\ Drained
  /\ OnlyTheFrame
  /\ last_update_time > 0
  /\ imu_data = IMUInit

\* the telemetry frame of 1 m/s straight ahead (vx = 1, vy = 0, vw = 0)
StraightAhead ==
  <<16, TelemetryPayload(<<16384, 0, -16384, 0, 0, 100, 1000, 0, 0, 1200>>)>>

\* ---- C19: once a sample with dt > 0 has been integrated, the pose is the
\* pose it found plus ((vx cos th - vy sin th) dt, (vx sin th + vy cos th)
\* dt, vw dt), with vx, vy, vw the velocities carried by that sample and th
\* the heading it found; and three samples of vx = 1, vy = 0, vw = 0 with
\* dt = 1 each take the pose from (0, 0, 0) to (3, 0, 0).
C19_PoseAdvance ==
  /\ (reader[1].pc = "batt" /\ reader[1].dt > 0) =>
       LET data == delivered[Len(delivered)][2]
           vx == UnpackS16(data, 12) * FIX
           vy == UnpackS16(data, 14) * FIX
           vw == UnpackS16(data, 16) * FIX
           th == hist.before[3]
           dt == reader[1].dt
       IN  /\ odometry_data.x =
                hist.before[1] + (vx * Cos(th) - vy * Sin(th)) * dt
           /\ odometry_data.y =
                hist.before[2] + (vx * Sin(th) + vy * Cos(th)) * dt
           /\ odometry_data.theta = hist.before[3] + vw * dt
  /\ (/\ hist.dts = <<1, 1, 1>>
      /\ delivered = <<StraightAhead, StraightAhead, StraightAhead>>) =>
       Pose = <<3 * 1000 * FIX, 0, 0>>

C19_Witness ==
  /\ hist.dts = <<1, 1, 1>>
  /\ delivered = <<StraightAhead, StraightAhead, StraightAhead>>
  /\ reader[1].pc = "batt"
  /\ Pose = <<3 * 1000 * FIX, 0, 0>>

\* a sample met at a quarter turn and turning on is integrated along the
\* heading it found
C19_QuarterTurnReached ==
  /\ reader[1].pc = "batt"
  /\ reader[1].dt = 1
  /\ hist.before[3] = QUARTER_TURN
  /\ odometry_data.theta = 2 * QUARTER_TURN

\* the payload the frame written last carries
TxPayload == SubSeq(tx, 5, Len(tx) - 1)

\* the payload C20 gives for a command id and the arguments of the call;
\* a velocity is taken when its thousandfold is a whole number, and a
\* colour when it is a byte
ClaimedPayload(cmd_id, args, payload) ==
  CASE cmd_id = 80 ->
         /\ Len(payload) = 6
         /\ \A i \in 1..3 :
              args[i] % FIX = 0 =>
                UnpackS16(payload, 2 * (i - 1)) * FIX = args[i]
    [] cmd_id = 81 -> payload = <<85>>
    [] cmd_id = 82 ->
         /\ Len(payload) = 6
         /\ payload[1] = args[4]
         /\ payload[2] = 0
         /\ payload[3] = 0
         /\ \A i \in 1..3 : args[i] \in Byte => payload[3 + i] = args[i]
    [] cmd_id = 83 -> payload = <<85>>
    [] cmd_id = 84 -> payload = <<IF args[1] THEN 1 ELSE 0>>
    [] OTHER -> FALSE

\* ---- C20 (as claimed): on a connected session whose port takes the
\* write, each command operation writes one frame with its id and its
\* payload: three little-endian int16 equal to the velocities times 1000,
\* the byte 0x55, (mode, 0, 0, r, g, b), the byte 0x55, the byte 1 or 0;
\* and connect() writes id 0x5A with the robot type.
C20_CommandFrames ==
  [][/\ \A c \in Callers :
          (caller[c].pc = "send" /\ caller'[c].pc # "send" /\ CanWrite) =>
            /\ Len(tx') >= 5
            /\ tx'[4] = caller[c].cmd_id
            /\ ClaimedPayload(caller[c].cmd_id, caller[c].args, TxPayload')
     /\ (main.pc = "c_type" /\ main'.pc = "idle" /\ CanWrite) =>
          /\ Len(tx') = 6
          /\ tx'[4] = 90
          /\ tx'[5] = 1]_vars


\* ---- C21
\* the telemetry sample the read loop decoded last, if the latest frame it
\* accepted is one and its processing has written every field
SamplePublished ==
  /\ delivered # <<>>
  /\ delivered[Len(delivered)][1] = 16
  /\ Len(delivered[Len(delivered)][2]) = 20
  /\ reader[1].pc \in {"stamp", "scan", "top", "read"}

LastPayload == delivered[Len(delivered)][2]

\* the little-endian 16-bit field number f (0..9) of the latest payload,
\* read as unsigned and as two's complement
FieldU(f) == LastPayload[2 * f + 1] + 256 * LastPayload[2 * f + 2]

FieldS(f) == IF FieldU(f) > 32767 THEN FieldU(f) - 65536 ELSE FieldU(f)

\* C21: the 20-byte telemetry payload is ten little-endian 16-bit fields,
\* nine signed and the last unsigned; fields 6, 7 and 8 become the measured
\* vx, vy and vw as raw / 1000 and field 9 the battery voltage as raw / 100
\* (values below are in 1/10000, so raw / 1000 is raw * 10).
C21_TelemetryFields ==
  SamplePublished =>
    /\ odometry_data.vx = FieldS(6) * 10
    /\ odometry_data.vy = FieldS(7) * 10
    /\ odometry_data.vw = FieldS(8) * 10
    /\ battery_voltage = FieldU(9) * 100

\* the sample at the ends of the ranges has been decoded: vx 32.767,
\* vy -32.768, battery 655.35
C21_Witness ==
  /\ SamplePublished
  /\ CleanFeed
  /\ feed.payload = TelemetryPayload(EdgeSample)
  /\ odometry_data.vx = 327670
  /\ odometry_data.vy = -327680
  /\ battery_voltage = 6553500


\* ---- C22
\* the read loop is between two decode passes: the inner loop has been left
\* and no new bytes have been appended yet
BetweenPasses == reader[1].pc \in {"top", "read"}

\* the buffer starts with the marker and is shorter than the length its
\* third byte declares (b shorter than three bytes declares none yet)
PartialFrame(b) ==
  /\ Len(b) >= 2
  /\ b[1] = 170
  /\ b[2] = 85
  /\ Len(b) >= 3 => Len(b) < b[3]

\* C22 as claimed: after every decode pass the receive buffer is empty, or
\* starts with 0xAA 0x55 and is shorter than the frame length it declares;
\* a buffer without a marker is dropped whatever its length.
C22_EmptyOrPartialFrame ==
  BetweenPasses =>
    reader[1].buffer = <<>> \/ PartialFrame(reader[1].buffer)

\* C22, amended: after every decode pass the receive buffer is shorter than
\* five bytes (so never searched for the marker), or starts with 0xAA 0x55
\* and is shorter than the frame length it declares; a buffer of five bytes
\* or more without a marker is dropped entirely.
C22_ShortOrPartialFrame ==
  BetweenPasses =>
    \/ Len(reader[1].buffer) < 5
    \/ /\ reader[1].buffer[1] = 170
       /\ reader[1].buffer[2] = 85
       /\ Len(reader[1].buffer) < reader[1].buffer[3]

\* a frame whose marker was broken on the wire arrived in one read and the
\* pass dropped all of it
C22_Witness ==
  /\ BetweenPasses
  /\ Drained
  /\ feed.flip \in 0..15
  /\ feed.chunks = "whole"
  /\ Len(FrameUnderTest) >= 5
  /\ ~HoldsMarker(FlipBit(FrameUnderTest, feed.flip))
  /\ reader[1].buffer = <<>>
  /\ delivered = <<>>


\* ---- C23
\* the read-loop threads that have been started and have not ended
AliveReaders == {t \in Threads : reader[t].pc \notin {"none", "done"}}

\* C23: at most one read-loop thread of a session is running at any time,
\* also when connect() is called on a connected session or after a
\* disconnect() whose bounded join expired.
C23_OneReadLoop == Cardinality(AliveReaders) <= 1


\* ---- C24
\* what telemetry publishes: pose and measured velocity, inertial sample,
\* battery voltage
Published == <<odometry_data, imu_data, battery_voltage>>

\* C24: once disconnect() has returned, pose, inertial sample, measured
\* velocity and battery voltage do not change until a new connect(): a read
\* loop that outlived disconnect() applies no telemetry frame.
C24_FrozenAfterDisconnect ==
  [][(hist.discReturned /\ hist'.discReturned) => Published' = Published]_vars


\* ---- C25
\* disconnect() has cleared the stop flag of a started read loop (connect()
\* is called once in SpecShutdown, so the flag is not set again)
StopRequested == ~is_running /\ reader[1].pc # "none"

\* C25: once disconnect() on a connected session has cleared is_running,
\* the read loop eventually exits, as long as no new connect() sets the
\* flag again.
C25_ReadLoopExits == StopRequested ~> reader[1].pc = "done"

\* the read loop has left through its loop test while disconnect() waits in
\* join: no error handler ran, the session still counts as connected
C25_Witness ==
  /\ StopRequested
  /\ main.pc = "d_join"
  /\ is_connected
  /\ reader[1].pc = "done"


\* ---- C26
\* disconnect() closes the transport in this step
Closing == main.pc = "d_close" /\ main'.pc = "d_flag"

\* C26: disconnect() on a connected session writes the zero-velocity frame
\* and sets the commanded velocity to (0,0,0), then clears the stop flag
\* and joins, then closes the transport, then marks the session
\* Disconnected: whenever it closes the transport, it has written the
\* zero-velocity frame, stored the zero velocity and cleared is_running.
C26_ShutdownOrder ==
  [][Closing => (hist.zeroSent /\ hist.zeroStored /\ ~is_running)]_vars


\* ---- C27
\* the marker 0xAA 0x55 stands k bytes into b
MarkerAt(b, k) == k + 2 <= Len(b) /\ b[k + 1] = 170 /\ b[k + 2] = 85

\* the bytes b[from..to] summed, by position
RECURSIVE SumRange(_, _, _)
SumRange(b, from, to) ==
  IF from > to THEN 0 ELSE b[from] + SumRange(b, from + 1, to)

\* the candidate k bytes into b, n = b[k + 3] bytes long, is complete and
\* its last byte is not the sum of the others modulo 256
FailsChecksum(b, k) ==
  LET n == b[k + 3]
  IN  /\ n >= 1
      /\ k + n <= Len(b)
      /\ SumRange(b, k + 1, k + n - 1) % 256 # b[k + n]

\* the read loop dropped a candidate and goes round its inner loop again
DroppedCandidate ==
  /\ reader[1].pc = "scan"
  /\ reader'[1].pc = "scan"
  /\ reader'[1] # reader[1]

\* C27: when the candidate at the first marker of the buffer fails its
\* checksum, that step drops exactly the candidate's declared total length
\* (and what preceded the marker), hands nothing on, and decoding goes on
\* with the bytes after it: no search inside the candidate.
C27_BadChecksumDropsDeclaredLength ==
  [][DroppedCandidate =>
       \E k \in 0..(Len(reader[1].buffer) - 4) :
         /\ MarkerAt(reader[1].buffer, k)
         /\ \A j \in 0..(k - 1) : ~MarkerAt(reader[1].buffer, j)
         /\ FailsChecksum(reader[1].buffer, k)
         /\ reader'[1].buffer =
              SubSeq(reader[1].buffer, k + reader[1].buffer[k + 3] + 1,
                     Len(reader[1].buffer))
         /\ delivered' = delivered]_vars

\* a flipped bit shortened the length byte of a frame that arrived in one
\* read: the candidate failed, exactly its declared length is gone and the
\* rest of the frame is what the loop scans next
C27_Witness ==
  /\ feed.flip \in 16..23
  /\ feed.chunks = "whole"
  /\ stream = <<>>
  /\ rx = <<>>
  /\ delivered = <<>>
  /\ reader[1].pc = "scan"
  /\ reader[1].buffer # <<>>
  /\ reader[1].buffer =
       SubSeq(FlipBit(FrameUnderTest, feed.flip),
              FlipBit(FrameUnderTest, feed.flip)[3] + 1, Len(FrameUnderTest))


\* ---- C28
\* the read loop has applied an accepted telemetry sample and is about to
\* set last_update_time; the sample's clock reading is hist.lastSample
SampleApplied == reader[1].pc = "stamp" /\ reader[1].raw # <<>>

\* this step ends the processing of a sample whose dt was not positive
StaleSampleDone ==
  /\ SampleApplied
  /\ reader'[1].pc # "stamp"
  /\ hist.lastSample - last_update_time <= 0

\* C28: for an accepted telemetry sample with dt <= 0 the pose is left as
\* the sample found it, while inertial sample, measured velocity and
\* battery voltage are overwritten with the sample's and the previous-sample
\* timestamp is set to the sample's clock reading.
C28_StaleSampleStillPublished ==
  [][StaleSampleDone =>
       /\ Pose = hist.before
       /\ Pose' = Pose
       /\ odometry_data.vx = FieldS(6) * 10
       /\ odometry_data.vy = FieldS(7) * 10
       /\ odometry_data.vw = FieldS(8) * 10
       /\ imu_data = [accel_x |-> AccelScale(FieldS(0)),
                      accel_y |-> AccelScale(FieldS(1)),
                      accel_z |-> AccelScale(FieldS(2)),
                      gyro_x |-> GyroScale(FieldS(3)),
                      gyro_y |-> GyroScale(FieldS(4)),
                      gyro_z |-> GyroScale(FieldS(5))]
       /\ battery_voltage = FieldU(9) * 100
       /\ last_update_time' = hist.lastSample]_vars

\* a sample stamped earlier than the one before it (dt < 0) has been
\* applied after the pose had moved: other values than the previous
\* sample's are published and the pose stayed
C28_Witness ==
  /\ SampleApplied
  /\ hist.lastSample < last_update_time
  /\ Len(delivered) >= 2
  /\ delivered[Len(delivered) - 1] # delivered[Len(delivered)]
  /\ hist.before # <<0, 0, 0>>
  /\ Pose = hist.before
  /\ odometry_data.vx = FieldS(6) * 10
  /\ battery_voltage = FieldU(9) * 100


\* ---- C29
\* f is a telemetry sample frame
IsSample(f) == f[1] = 16 /\ Len(f[2]) = 20

\* the positions in `delivered` of telemetry samples
SamplesDelivered == {i \in 1..Len(delivered) : IsSample(delivered[i])}

\* the payload of the latest telemetry sample handed on
NewestSample ==
  delivered[CHOOSE i \in SamplesDelivered :
              \A j \in SamplesDelivered : j <= i][2]

\* field f of payload p, unsigned and two's complement
U16At(p, f) == p[2 * f + 1] + 256 * p[2 * f + 2]

S16At(p, f) == IF U16At(p, f) > 32767 THEN U16At(p, f) - 65536 ELSE U16At(p, f)

\* the bytes on the wire of the frames sent[from..]
RECURSIVE WireLength(_, _)
WireLength(sent, from) ==
  IF from > Len(sent) THEN 0
  ELSE 5 + Len(sent[from][2]) + WireLength(sent, from + 1)

\* C29: frames are applied in the order of the byte stream: what the read
\* loop has handed on is always an initial part of what the board sent;
\* when a pass of the loop ends, every frame it has read has been processed
\* (the buffer is empty and only the frames still in the port are missing),
\* and measured velocity, inertial sample and battery voltage are those of
\* the last telemetry frame processed.
C29_FramesInStreamOrder ==
  /\ Len(delivered) <= Len(hist.sent)
  /\ delivered = SubSeq(hist.sent, 1, Len(delivered))
  /\ BetweenPasses =>
       /\ reader[1].buffer = <<>>
       /\ WireLength(hist.sent, Len(delivered) + 1) = Len(rx)
       /\ SamplesDelivered # {} =>
            /\ odometry_data.vx = S16At(NewestSample, 6) * 10
            /\ odometry_data.vy = S16At(NewestSample, 7) * 10
            /\ odometry_data.vw = S16At(NewestSample, 8) * 10
            /\ imu_data.accel_x = AccelScale(S16At(NewestSample, 0))
            /\ imu_data.gyro_z = GyroScale(S16At(NewestSample, 5))
            /\ battery_voltage = U16At(NewestSample, 9) * 100

\* one read returned two telemetry frames with different samples (the
\* buffer was empty before it): the first has been processed and published,
\* and the same pass goes on with the second, which is all the buffer holds
C29_Witness ==
  /\ reader[1].pc = "scan"
  /\ rx = <<>>
  /\ Len(hist.sent) = 2
  /\ IsSample(hist.sent[1])
  /\ IsSample(hist.sent[2])
  /\ hist.sent[1] # hist.sent[2]
  /\ delivered = <<hist.sent[1]>>
  /\ reader[1].buffer = DeviceFrame(hist.sent[2][1], hist.sent[2][2])
  /\ battery_voltage = U16At(delivered[1][2], 9) * 100
  /\ odometry_data.vx = S16At(delivered[1][2], 6) * 10


\* ---- C30
\* where a read loop is while it is inside `with self.data_lock:`
InCriticalSection == {"x", "y", "theta", "batt"}

\* whoever holds the lock is a read loop inside the field updates of one
\* sample (not at its port read, not at another acquisition) and can take
\* its next step
HolderRuns ==
  /\ data_lock \in {0} \cup Threads
  /\ data_lock # 0 =>
       /\ reader[data_lock].pc \in InCriticalSection
       /\ ENABLED ReceiveData(data_lock)
  /\ \A t \in Threads :
       reader[t].pc \in InCriticalSection => data_lock = t

\* the lock is taken only when free; a step that writes to the port or
\* reads it leaves the lock as it is; disconnect()'s set_velocity stores
\* the velocity, after its write, in a step of its own with the lock free
LockSteps ==
  /\ data_lock' \notin {0, data_lock} => data_lock = 0
  /\ (tx' # tx \/ (rx' = <<>> /\ rx # <<>>)) => data_lock' = data_lock
  /\ (main.pc = "d_store" /\ main'.pc = "d_stop") =>
       (data_lock = 0 /\ data_lock' = 0 /\ tx' = tx)

\* C30: the state lock is never held while a transport read or write is in
\* progress and never acquired while held, by the read loop or a foreground
\* operation; so no thread waits for the lock for ever.
C30_LockDiscipline == []HolderRuns /\ [][LockSteps]_vars

\* the read loop holds the lock in the middle of a sample while
\* disconnect(), having written its zero-velocity frame, waits for it
C30_Witness ==
  /\ data_lock = 1
  /\ reader[1].pc = "theta"
  /\ main.pc = "d_store"
  /\ hist.zeroSent


\* ---- C31
\* caller c's set_velocity stores its velocity and returns in this step
StoresAndReturns(c) == caller[c].pc = "store" /\ caller'[c].pc = "idle"

\* C31: set_velocity(vx, vy, vw) on a connected session ends by overwriting
\* the commanded velocity with (vx, vy, vw) and returning normally, whether
\* or not its frame reached the port: a failed write is not surfaced and
\* rolls nothing back.
C31_StoredDespiteWriteFailure ==
  [][\A c \in Callers :
       StoresAndReturns(c) =>
         (current_velocity' = caller[c].args /\ tx' = tx)]_vars

\* the first command of a run was a set_velocity whose write raised; it has
\* returned, its velocity is the commanded velocity and the port still
\* holds what was written before it
C31_Witness ==
  /\ cmdsLeft = MaxCmds - 1
  /\ \A c \in Callers : caller[c].pc = "idle"
  /\ hist.writeRaised \in VelocityArgs
  /\ current_velocity = hist.writeRaised
  /\ txArgs = <<CMD_ROBOT_TYPE, <<R20_MEC>>>>

\* ---- C32
\* the session has been connected since its only connect(), the link is up,
\* connect() has returned, no disconnect() is under way and every
\* set_velocity call has returned; the last frame written is a velocity frame
VelocityCallsReturned ==
  /\ is_connected
  /\ portsOpened = 1
  /\ ~linkDown
  /\ main.pc = "idle"
  /\ \A c \in Callers : caller[c].pc = "idle"
  /\ txArgs # <<>>
  /\ txArgs[1] = CMD_VELOCITY

\* C32: once every one of a set of concurrent set_velocity calls on a
\* connected session has returned, the commanded velocity that
\* get_current_velocity() returns is the velocity of the last velocity frame
\* written to the port, whatever the interleaving of the calls.
C32_StoredMatchesLastFrame ==
  VelocityCallsReturned => txArgs[2] = VelocityPayload(current_velocity)

\* ---- C33
\* every byte put on the line in this run, in the order sent
BytesSent ==
  feed.garbage \o (IF feed.flip = -1 THEN FrameUnderTest
                   ELSE FlipBit(FrameUnderTest, feed.flip))

\* the frames one decode pass delivers from a buffer that holds b, the
\* whole stream read at once
RECURSIVE FramesOfOneRead(_)
FramesOfOneRead(b) ==
  LET r == ScanStep(b)
  IN  CASE r.kind = "frame" ->
             <<<<r.cmd_id, r.data>>>> \o FramesOfOneRead(r.buffer)
        [] r.kind = "next" -> FramesOfOneRead(r.buffer)
        [] OTHER -> <<>>

AtRestDisconnected == main.pc = "idle" /\ ~is_connected

\* C34: at any time at most one port handle opened by the session is open:
\* whenever the session is Disconnected, through disconnect() or through a
\* read-loop error, its port has been closed, so a later connect() never
\* opens a new handle while an earlier one is still open.
C34_OneHandleOpen ==
  /\ Cardinality(openPorts) <= 1
  /\ AtRestDisconnected => openPorts = {}

\* ---- C35
\* the iteration of the inner loop that the read loop is about to run
\* stops the loop (break, the loop condition, or an exception) or leaves a
\* shorter buffer
IterationProgresses ==
  reader[1].pc = "scan" =>
    LET r == ScanStep(reader[1].buffer)
    IN  \/ r.kind \in {"stop", "raise"}
        \/ Len(r.buffer) < Len(reader[1].buffer)

\* an iteration the read loop has run stopped the loop or removed a byte
IterationShrinks ==
  (reader[1].pc = "scan" /\ reader'[1] # reader[1]) =>
    \/ reader'[1].pc \in {"top", "done"}
    \/ Len(reader'[1].buffer) < Len(reader[1].buffer)

\* C35: the inner decode loop ends for every buffer content: each iteration
\* either stops the loop or removes at least one byte from the buffer, so
\* no bytes received make the read loop spin inside one drain cycle.
C35_DecodeLoopTerminates ==
  []IterationProgresses /\ [][IterationShrinks]_vars

\* a frame whose length byte was flipped to 0 has been read: the loop
\* ended on it rather than going round on a candidate of no bytes
C35_Witness ==
  /\ Settled
  /\ feed.flip # -1
  /\ BytesSent[3] = 0
  /\ reader[1].pc = "done"

\* ---- C36
\* what a pass lets a kept buffer b grow to: a buffer of five bytes or more
\* is kept only while shorter than the length its third byte declares, a
\* shorter one is not looked at
RetainedLimit(b) == IF Len(b) >= MIN_PACKET THEN b[3] ELSE MIN_PACKET

\* C36: after every completed drain cycle of the read loop the buffer kept
\* holds fewer than 255 bytes, whatever bytes arrived and however many in
\* one read: it is shorter than five bytes or shorter than the length its
\* third byte declares, which is one byte and so at most 255.
C36_RetainedBufferBounded ==
  BetweenPasses =>
    /\ Len(reader[1].buffer) < RetainedLimit(reader[1].buffer)
    /\ RetainedLimit(reader[1].buffer) <= 255
    /\ Len(reader[1].buffer) < 255

\* every byte sent arrived in one read and the pass kept more than a
\* telemetry frame's worth of bytes, waiting for a declared length
C36_Witness ==
  /\ Drained
  /\ feed.chunks = "whole"
  /\ Len(reader[1].buffer) > MIN_PACKET + TELEMETRY_LEN
  /\ reader[1].buffer[3] > Len(reader[1].buffer)

\* ---- C37
\* the buffer b, five bytes or more, holds a candidate (the bytes from the
\* first marker on, at least four of them) whose length byte is below 5
ShortCandidate(b) ==
  /\ Len(b) >= MIN_PACKET
  /\ FindHeader(b) # -1
  /\ LET buf == Drop(b, FindHeader(b))
     IN  Len(buf) >= 4 /\ buf[3] < MIN_PACKET

\* C37: the scan never takes for valid a candidate whose length byte is
\* less than 5: the iteration that meets one hands no command id and no
\* payload to _process_received_data, so that the previous-sample time is
\* not stamped for it.
C37_ShortCandidateRejected ==
  [][(reader[1].pc = "scan" /\ ShortCandidate(reader[1].buffer)) =>
       (delivered' = delivered /\ reader'[1].pc # "proc"
          /\ last_update_time' = last_update_time)]_vars
=============================================================================
